---- MODULE Spec2Model ----
(***************************************************************************)
(* fastmail2ynab: receipt emails -> classifier -> budgeting transactions.  *)
(*                                                                         *)
(* The model follows src/fastmail2ynab.py.  The SQLite tables are sets of  *)
(* rows, the budgeting service (YNAB) is a set of server-side rows, and an *)
(* invocation of the script (an import run or --undo) is a sequence of     *)
(* steps of one process.  Nullable values are sequences of length 0 or 1   *)
(* (None == <<>>, Some(x) == <<x>>).                                       *)
(***************************************************************************)
EXTENDS Integers, Sequences, FiniteSets, TLC

VARIABLES
    \* ---- local store (processed_emails.db)
    processed_emails,       \* rows [email_id, is_receipt, ynab_transaction_id, run_id]
    classification_cache,   \* rows [email_id, result]
    runs,                   \* rows [run_id, completed_at, transactions_created]
    \* ---- budgeting service
    ynab_transactions,      \* rows [id, import_id, date, email_id, run_id, deleted]
    ynab_scheduled,         \* rows [id, date, email_id, run_id]
    \* ---- environment
    today,                  \* datetime.now(UTC).date() as a day number
    clock,                  \* datetime.now(UTC) as a strictly increasing reading
    inbox,                  \* what fetch_recent_emails returns
    min_score,              \* CONFIG["min_score"]
    \* ---- the running invocation
    pc,                     \* "idle" | "scan" | "submit"
    mode,                   \* "none" | "import" | "undo"
    force,                  \* --force
    run_id,                 \* run_id of the running import
    idx,                    \* position of the scan loop in inbox
    pending_transactions,   \* list of PendingTransaction built by the scan
    non_receipt_emails,     \* list of email ids to mark as non-receipts
    scheduled_transactions, \* confirmed scheduled transactions
    regular_transactions,   \* confirmed regular transactions
    si,                     \* position in scheduled_transactions
    bi,                     \* number of the next batch
    stats,                  \* the counters of the summary line
    outcome,                \* how the last invocation ended
    \* ---- observation (history) variables
    invocations,            \* invocations started so far
    pre,                    \* the store when the invocation began
    classifier_calls,       \* email ids the classifier was invoked for, this invocation
    found_processed,        \* email ids that had a ledger row when scanned
    handled,                \* <<email id, ClassificationResult>> obtained this invocation
    create_calls,           \* creation requests sent to the service, this invocation
    delete_calls,           \* delete requests sent to the service, this invocation
    undo_target,            \* what get_last_run returned to the undo
    undone_emails,          \* email ids whose ledger rows the last undo removed
    dropped_cache,          \* email ids classified once whose cache entry a clear has removed
    failed_emails,          \* <<email id, had a ledger row>> of the submissions that failed in the last import
    import_id_calls,        \* set of applications of generate_import_id (SpecImportId)
    classify_calls,         \* set of applications of classify_email's parsing (SpecClassify)
    validate_calls,         \* set of applications of validate_transaction_date (SpecValidate)
    deselected,             \* history: per email the user deselected, the run of the latest deselection and whether an undo has since deleted the email's ledger row
    classifier_returned,    \* history: <<email id, run, result>> of the classifier calls that returned since the cache was last cleared
    \* ---- the processes contending for the lock file (SpecLock)
    lock,                   \* the process holding flock(LOCK_EX) on the lock file, or None
    proc,                   \* per process: position, arguments, what it did outside the lock
    dropped_in,             \* the invocation during whose body another process dropped the cache table
    accounts                \* the global ACCOUNTS as the latest process_emails loaded it

vars == <<processed_emails, classification_cache, runs, ynab_transactions,
          ynab_scheduled, today, clock, inbox, min_score, pc, mode, force,
          run_id, idx, pending_transactions, non_receipt_emails,
          scheduled_transactions, regular_transactions, si, bi, stats, outcome,
          invocations, pre, classifier_calls, found_processed, handled,
          create_calls, delete_calls, undo_target, undone_emails, dropped_cache,
          failed_emails, import_id_calls, classify_calls, validate_calls, lock, proc,
          dropped_in, accounts, classifier_returned, deselected>>

storeVars == <<processed_emails, classification_cache, runs>>
ynabVars == <<ynab_transactions, ynab_scheduled>>
lockVars == <<lock, proc, dropped_in>>
harnessVars == <<import_id_calls, classify_calls, validate_calls, lockVars, accounts>>
localVars == <<run_id, idx, pending_transactions, non_receipt_emails,
               scheduled_transactions, regular_transactions, si, bi, stats>>

----------------------------------------------------------------------------
(* Bounds of the model *)

MaxInvocations == 3   \* invocations of the script in one behaviour
MaxDayAdvance == 1    \* days that pass during one behaviour
MaxClock == 1         \* clock readings of SpecImportId
MaxImportIdCalls == 4 \* applications of generate_import_id in SpecImportId
MaxClassifyCalls == 2 \* applications of classify_email's parsing in SpecClassify
MaxArrivals == 2      \* times each process starts the script in SpecLock
MaxValidateCalls == 2 \* applications of validate_transaction_date in SpecValidate

(* Program constants *)

FiveYearsDays == 1825       \* timedelta(days=5 * 365)
NinetyDays == 90            \* timedelta(days=90)
BatchSize == 5              \* batch_size = 5
DefaultMinScore == 6        \* safe_int(os.getenv("MIN_SCORE"), 6)
ImportIdLimit == 36         \* import_id[:36]

Day0 == 20000               \* the day number of the first day of a behaviour

----------------------------------------------------------------------------
(* Nullable values and Python truthiness *)

None == <<>>
Some(x) == <<x>>
\* The Python value behind a nullable: None stays None.
Get(o) == IF o = <<>> THEN <<>> ELSE o[1]

\* Python's truth value of a nullable string: None and "" are false.
TruthyStr(o) == o # <<>> /\ o[1] # ""

Min(a, b) == IF a <= b THEN a ELSE b

\* A date string: ok says whether strptime("%Y-%m-%d") (or fromisoformat for a
\* timestamp) parses it, day is the date it denotes.
DateStr(d) == [ok |-> TRUE, day |-> d]
BadStr == [ok |-> FALSE, day |-> 0]

----------------------------------------------------------------------------
(* Configuration *)

\* YNAB_ACCOUNTS after load_accounts: exactly one default.
ACCOUNTS ==
    << [name |-> "Card", ynab_id |-> "acct-card", default |-> TRUE],
       [name |-> "Checking", ynab_id |-> "acct-checking", default |-> FALSE] >>

\* Thresholds a run may be configured with (MIN_SCORE).
MinScores == {DefaultMinScore}

RECURSIVE FirstDefault(_, _)
FirstDefault(account_list, i) ==
    IF i > Len(account_list) THEN None
    ELSE IF account_list[i].default THEN Some(account_list[i])
    ELSE FirstDefault(account_list, i + 1)

\* get_default_account: the first account marked default (raises without one;
\* load_accounts guarantees one).
get_default_account(account_list) == Get(FirstDefault(account_list, 1))

RECURSIVE FirstNamed(_, _, _)
FirstNamed(account_list, name, i) ==
    IF i > Len(account_list) THEN None
    ELSE IF account_list[i].name = name THEN Some(account_list[i])
    ELSE FirstNamed(account_list, name, i + 1)

get_account_for_transaction(account_name, account_list) ==
    IF TruthyStr(account_name) /\ FirstNamed(account_list, Get(account_name), 1) # None
    THEN Get(FirstNamed(account_list, Get(account_name), 1))
    ELSE get_default_account(account_list)

\* One element of the YNAB_ACCOUNTS array: is_object is FALSE for an element
\* that is not a JSON object; name and ynab_id are None when the key is
\* absent; default is bool(acct.get("default", False)).
AccountEntry(is_object, name, ynab_id, default) ==
    [obj |-> is_object, name |-> name, ynab_id |-> ynab_id, default |-> default]

\* The text of YNAB_ACCOUNTS: not set (or empty), not JSON, JSON that is not
\* an array, an array of elements.
AccountsUnset == [json |-> "unset", items |-> <<>>]
AccountsInvalidJson == [json |-> "invalid", items |-> <<>>]
AccountsNotArray == [json |-> "not_array", items |-> <<>>]
AccountsArray(items) == [json |-> "array", items |-> items]

\* raise SystemExit("Error: ..."): the interpreter exits with status 1.
AccountsExit(message) == [exit |-> TRUE, message |-> message, accounts |-> <<>>]
AccountsLoaded(account_list) ==
    [exit |-> FALSE, message |-> "", accounts |-> account_list]

\* The loop of load_accounts over the array; acc is the list built so far.
RECURSIVE parse_accounts(_, _, _)
parse_accounts(items, i, acc) ==
    IF i > Len(items) THEN AccountsLoaded(acc)
    ELSE LET acct == items[i]
         IN  IF ~acct.obj THEN AccountsExit("must be an object")
             ELSE IF ~TruthyStr(acct.name) THEN AccountsExit("missing 'name'")
             ELSE IF ~TruthyStr(acct.ynab_id) THEN AccountsExit("missing 'ynab_id'")
             ELSE IF \E k \in 1..Len(acc) : acc[k].name = Get(acct.name)
             THEN AccountsExit("Duplicate account name")
             ELSE parse_accounts(items, i + 1,
                                 Append(acc, [name |-> Get(acct.name),
                                              ynab_id |-> Get(acct.ynab_id),
                                              default |-> acct.default]))

\* Mutant: more than one default account is accepted.
load_accounts_many_defaults(accounts_env) ==
    IF accounts_env.json = "unset" THEN AccountsLoaded(<<>>)
    ELSE IF accounts_env.json = "invalid" THEN AccountsExit("not valid JSON")
    ELSE IF accounts_env.json = "not_array" THEN AccountsExit("must be a JSON array")
    ELSE LET parsed == parse_accounts(accounts_env.items, 1, <<>>)
             default_accounts == SelectSeq(parsed.accounts, LAMBDA a : a.default)
         IN  IF parsed.exit THEN parsed
             ELSE IF Len(default_accounts) = 0
             THEN AccountsExit("No account marked as default")
             ELSE parsed

\* load_accounts: the account list, [] when YNAB_ACCOUNTS is not set, or
\* SystemExit.
load_accounts(accounts_env) ==
    IF accounts_env.json = "unset" THEN AccountsLoaded(<<>>)
    ELSE IF accounts_env.json = "invalid" THEN AccountsExit("not valid JSON")
    ELSE IF accounts_env.json = "not_array" THEN AccountsExit("must be a JSON array")
    ELSE LET parsed == parse_accounts(accounts_env.items, 1, <<>>)
             default_accounts == SelectSeq(parsed.accounts, LAMBDA a : a.default)
         IN  IF parsed.exit THEN parsed
             ELSE IF Len(default_accounts) = 0
             THEN AccountsExit("No account marked as default")
             ELSE IF Len(default_accounts) > 1
             THEN AccountsExit("Multiple default accounts")
             ELSE parsed

\* The environment of an invocation: the four credentials of CONFIG (None
\* when the variable is not set), MIN_SCORE after safe_int, YNAB_ACCOUNTS.
Environment(fastmail_token, anthropic_api_key, ynab_token, ynab_budget_id, threshold, accounts_env) ==
    [fastmail_token |-> fastmail_token, anthropic_api_key |-> anthropic_api_key,
     ynab_token |-> ynab_token, ynab_budget_id |-> ynab_budget_id,
     min_score |-> threshold, accounts_env |-> accounts_env]

\* missing = [k for k, v in CONFIG.items() if not v]
missing_config(env) ==
    {k \in {"fastmail_token", "anthropic_api_key", "ynab_token", "ynab_budget_id"} :
         ~TruthyStr(env[k])}
    \cup (IF env.min_score = 0 THEN {"min_score"} ELSE {})

\* What the statements before the lock decide: go on to acquire_lock, or
\* leave with an exit status; accounts is the value of ACCOUNTS afterwards.
Proceed(account_list) == [go |-> TRUE, exit |-> "none", status |-> 0, accounts |-> account_list]
Leave(exit, status, account_list) == [go |-> FALSE, exit |-> exit, status |-> status, accounts |-> account_list]

\* process_emails up to "with acquire_lock()": a print and a return (the
\* script then ends with status 0) for missing configuration and for an
\* empty account list; SystemExit from load_accounts.
process_emails_checks(env, current_accounts) ==
    IF missing_config(env) # {} THEN Leave("missing_config", 0, current_accounts)
    ELSE LET loaded == load_accounts(env.accounts_env)
         IN  IF loaded.exit THEN Leave("accounts_exit", 1, current_accounts)
             ELSE IF loaded.accounts = <<>> THEN Leave("no_accounts", 0, <<>>)
             ELSE Proceed(loaded.accounts)

\* undo_last_run up to "with acquire_lock()": only the YNAB token and the
\* budget id are looked at; exit(0) follows the return.
undo_last_run_checks(env, current_accounts) ==
    IF ~TruthyStr(env.ynab_token) \/ ~TruthyStr(env.ynab_budget_id)
    THEN Leave("missing_config", 0, current_accounts)
    ELSE Proceed(current_accounts)

\* The environment with which ACCOUNTS is what load_accounts returns.
DefaultEnv ==
    Environment(Some("fm"), Some("sk"), Some("pat"), Some("budget"), DefaultMinScore,
                AccountsArray(<< AccountEntry(TRUE, Some("Card"), Some("acct-card"), TRUE),
                                 AccountEntry(TRUE, Some("Checking"), Some("acct-checking"), FALSE) >>))

----------------------------------------------------------------------------
(* Emails and classifier results *)

Email(id, received_at) == [id |-> id, received_at |-> received_at]

\* The inbox of the main specification: one email with a usable receivedAt
\* and one whose receivedAt is missing ("" does not parse).
Inbox == << Email("e1", DateStr(Day0 - 1)), Email("e2", BadStr) >>

ClassificationResult(score, inflow, merchant, payee, amount, date, conf, acct) ==
    [score |-> score, is_inflow |-> inflow, merchant |-> merchant,
     matched_payee |-> payee, amount |-> amount, date |-> date,
     date_confidence |-> conf, account_name |-> acct]

\* ClassificationResult(score=0, reasoning=...): every other field its default.
FailedResult ==
    ClassificationResult(0, FALSE, None, None, None, None, None, None)

Receipt(score, amount, date, confidence) ==
    ClassificationResult(score, FALSE, Some("Amazon"), None, amount, date,
                         confidence, None)

----------------------------------------------------------------------------
(* The classifier's response text and classify_email's parsing of it *)

\* A member of the JSON object: absent, null, a number, a string that int()
\* and float() accept ("7"), any other non-empty string, a non-empty list.
JAbsent == [j |-> "absent"]
JNull == [j |-> "null"]
JInt(n) == [j |-> "int", v |-> n]
JNumStr(n) == [j |-> "numstr", v |-> n]
JStr(s) == [j |-> "str", v |-> s]
JList == [j |-> "list"]

\* A JSON document: an object with the members the conversion reads, or any
\* other JSON value (a list, a number, a string, null).
JObject(score, amount, direction) ==
    [t |-> "object", score |-> score, amount |-> amount, direction |-> direction]
JOther == [t |-> "other"]

\* response_text: "json" parses as it stands, "block" is not JSON but holds a
\* {...} block that parses, "bad_block" holds a block that does not parse,
\* "no_block" holds none.
Response(text, doc) == [text |-> text, doc |-> doc]

\* Python's truth value of data.get(key).
Truthy(member) ==
    /\ member.j \notin {"absent", "null"}
    /\ ~(member.j = "int" /\ member.v = 0)

\* int(x) and float(x) on a JSON member: the number, or the exception.
to_number(member) ==
    IF member.j \in {"int", "numstr"} THEN [exc |-> "none", v |-> member.v]
    ELSE IF member.j = "str" THEN [exc |-> "ValueError", v |-> 0]
    ELSE [exc |-> "TypeError", v |-> 0]

Returned(result) == [raised |-> FALSE, exc |-> "none", result |-> result]
Raised(exc) == [raised |-> TRUE, exc |-> exc, result |-> FailedResult]

\* classify_email from response_text on: the two parsing strategies, then the
\* conversion inside try / except (KeyError, ValueError).
classify_email(response) ==
    IF response.text \in {"no_block", "bad_block"} THEN Returned(FailedResult)
    ELSE LET data == response.doc
         IN  IF data.t # "object" THEN Raised("AttributeError")
             ELSE LET score == IF data.score = JAbsent
                               THEN [exc |-> "none", v |-> 0]
                               ELSE to_number(data.score)
                      amount == IF Truthy(data.amount) THEN to_number(data.amount)
                                ELSE [exc |-> "none", v |-> 0]
                  IN  IF Truthy(data.direction) /\ data.direction.j # "str"
                      THEN Raised("AttributeError")
                      ELSE IF score.exc = "ValueError" THEN Returned(FailedResult)
                      ELSE IF score.exc = "TypeError" THEN Raised("TypeError")
                      ELSE IF amount.exc = "ValueError" THEN Returned(FailedResult)
                      ELSE IF amount.exc = "TypeError" THEN Raised("TypeError")
                      ELSE Returned(ClassificationResult(
                               score.v,
                               Truthy(data.direction) /\ data.direction.v = "inflow",
                               Some("Amazon"), None,
                               IF Truthy(data.amount) THEN Some(amount.v) ELSE None,
                               None, None, None))

\* The response texts the classifier is taken to give.
Responses ==
    { Response("no_block", JOther),
      Response("bad_block", JOther),
      Response("json", JOther),
      Response("json", JObject(JInt(9), JInt(1299), JStr("outflow"))),
      Response("block", JObject(JInt(9), JInt(1299), JAbsent)),
      Response("json", JObject(JInt(3), JInt(1299), JNull)),
      Response("json", JObject(JNumStr(7), JNumStr(1299), JStr("inflow"))),
      Response("json", JObject(JAbsent, JInt(1299), JAbsent)),
      Response("json", JObject(JNull, JInt(1299), JAbsent)),
      Response("json", JObject(JStr("high"), JInt(1299), JAbsent)),
      Response("json", JObject(JList, JInt(1299), JAbsent)),
      Response("json", JObject(JInt(9), JAbsent, JAbsent)),
      Response("json", JObject(JInt(9), JNull, JAbsent)),
      Response("json", JObject(JInt(9), JInt(0), JAbsent)),
      Response("json", JObject(JInt(9), JInt(0 - 1299), JAbsent)),
      Response("json", JObject(JInt(9), JInt(0 - 1299), JStr("inflow"))),
      Response("json", JObject(JInt(9), JStr("n/a"), JAbsent)),
      Response("json", JObject(JInt(9), JList, JAbsent)),
      Response("json", JObject(JInt(9), JInt(1299), JInt(1))) }

\* The results classify_email returns over Responses.
ParsedResults ==
    {classify_email(r).result : r \in {x \in Responses : ~classify_email(x).raised}}

\* The emails of the batching specification.
BatchEmailIds == {"b1", "b2", "b3", "b4", "b5", "b6"}

\* A payee name of more than 50 characters, and its first 50 characters.
LongPayee == "International Business Machines Corporation of North America"
LongPayeePrefix == "International Business Machines Corporation of Nor"

\* final_payee[:50]
truncate_50(name) == IF name = LongPayee THEN LongPayeePrefix ELSE name

\* The payee names refresh_payee_cache_if_needed returns: the payees of the
\* budget.
PayeeNames == {"Amazon.com", LongPayee}

\* The matched_payee and merchant members the classifier answers for the
\* email "y1": null, empty, a known payee, names the budget does not have.
MatchedPayees == {None, Some(""), Some("Amazon.com"), Some(LongPayee), Some("Amazone")}
Merchants == {None, Some("AMZN Mktp US")}

\* The account_name members the classifier answers for the email "a1": none,
\* the empty string, names of configured accounts, a name in another case, a
\* name no configuration has.
SuggestedAccounts ==
    {None, Some(""), Some("Card"), Some("Checking"), Some("checking"), Some("Visa")}

\* A merchant member the classifier answers as a JSON array for the email
\* "k1": data.get("merchant") copies the list into the result as it is.
ArrayMerchant == "[AMZN, Mktp]"

\* Whether sqlite3 binds the parameters of cache_classification's INSERT: a
\* list is not a supported type, and execute() raises ProgrammingError.
sqlite_binds(result) == result.merchant # Some(ArrayMerchant)

\* What classify_email returns for an email (the results the classifier gives
\* are bounded per email).  Amounts are in cents.
ClassifierResults(email_id) ==
    IF email_id \in BatchEmailIds
    THEN { Receipt(9, Some(1000), Some(DateStr(Day0 - 1)), None) }
    ELSE IF email_id = "k1"
    THEN { Receipt(9, Some(4217), Some(DateStr(Day0 - 1)), None),
           ClassificationResult(9, FALSE, Some(ArrayMerchant), None, Some(4217),
                                Some(DateStr(Day0 - 1)), None, None) }
    ELSE IF email_id = "p1" THEN ParsedResults
    ELSE IF email_id = "y1"
    THEN { ClassificationResult(9, FALSE, merchant, matched_payee, Some(4217),
                                Some(DateStr(Day0 - 1)), None, None) :
               merchant \in Merchants, matched_payee \in MatchedPayees }
    ELSE IF email_id = "a1"
    THEN { ClassificationResult(9, FALSE, Some("Amazon"), None, Some(4217),
                                Some(DateStr(Day0 - 1)), None, account_name) :
               account_name \in SuggestedAccounts }
    ELSE IF email_id = "e1"
    THEN { Receipt(3, Some(4217), Some(DateStr(Day0 - 1)), None),            \* below the threshold
           Receipt(9, None, Some(DateStr(Day0 - 1)), None),                  \* no amount
           Receipt(9, Some(4217), Some(DateStr(Day0 - 1)), Some("certain")) }\* past date
    ELSE { Receipt(9, Some(1299), Some(DateStr(Day0 + 1)), Some("certain")), \* future, certain
           Receipt(9, Some(1299), Some(DateStr(Day0 + 1)), Some("likely")),  \* future, not certain
           Receipt(9, Some(1299), None, None),                               \* no date
           FailedResult }                                                    \* unparseable response

----------------------------------------------------------------------------
(* Date validation *)

\* Mutant: today + 90 days is no longer accepted.
validate_transaction_date_exclusive(date_str, email_received_at, day) ==
    LET five_years_ago == day - FiveYearsDays
        ninety_days_future == day + NinetyDays
    IN  IF /\ date_str # None
           /\ Get(date_str).ok
           /\ five_years_ago <= Get(date_str).day
           /\ Get(date_str).day < ninety_days_future
        THEN <<date_str, Get(date_str).day > day>>
        ELSE IF /\ email_received_at.ok
                /\ five_years_ago <= email_received_at.day
                /\ email_received_at.day <= day
        THEN <<Some(DateStr(email_received_at.day)), FALSE>>
        ELSE <<None, FALSE>>

\* validate_transaction_date(date_str, email_received_at) at the given day:
\* <<validated date string or None, is_future>>.
validate_transaction_date(date_str, email_received_at, day) ==
    LET five_years_ago == day - FiveYearsDays
        ninety_days_future == day + NinetyDays
    IN  IF /\ date_str # None
           /\ Get(date_str).ok
           /\ five_years_ago <= Get(date_str).day
           /\ Get(date_str).day <= ninety_days_future
        THEN <<date_str, Get(date_str).day > day>>
        ELSE IF /\ email_received_at.ok
                /\ five_years_ago <= email_received_at.day
                /\ email_received_at.day <= day
        THEN <<Some(DateStr(email_received_at.day)), FALSE>>
        ELSE <<None, FALSE>>

----------------------------------------------------------------------------
(* Idempotency key *)

\* datetime.isoformat(): one string per clock reading.
isoformat(t) == <<"iso", t>>

\* hashlib.md5(...).hexdigest()[:16], taken as collision-free on the inputs
\* of the model: the digest stands for the byte string that was hashed.
md5_hex16(hash_input) == [md5 |-> hash_input]

\* Characters of f"YNAB:{date}:{hash_hex}": a date that strptime("%Y-%m-%d")
\* accepts has at most 10 characters.
HashHexLen == 16
import_id_length == 5 + 10 + 1 + HashHexLen

\* Mutant: the clock reading is left out of the hash under force.
generate_import_id_no_clock(email_id, amount, date, is_force, t) ==
    [prefix |-> "YNAB", date |-> date, hash |-> md5_hex16(<<email_id>>)]

\* generate_import_id(email_id, amount, date, force); t is the clock reading
\* the call takes under force.  amount is deleted on entry.  The [:36] cut
\* removes nothing from a 32-character key.
generate_import_id(email_id, amount, date, is_force, t) ==
    LET hash_input == IF is_force THEN <<email_id>> \o isoformat(t)
                      ELSE <<email_id>>
        kept == Min(HashHexLen, ImportIdLimit - (import_id_length - HashHexLen))
    IN  [prefix |-> "YNAB", date |-> date,
         hash |-> IF kept = HashHexLen THEN md5_hex16(hash_input)
                  ELSE [md5 |-> <<"cut", kept, hash_input>>]]

----------------------------------------------------------------------------
(* Local store *)

\* Mutant: the ledger is not consulted.
is_processed_never(email_id) == FALSE

\* is_processed(email_id): SELECT 1 FROM processed_emails WHERE email_id = ?
is_processed(email_id) == \E r \in processed_emails : r.email_id = email_id

\* INSERT OR REPLACE INTO processed_emails: the row with the same primary key
\* is replaced.
mark_processed(table, email_id, is_receipt, ynab_id, rid) ==
    {r \in table : r.email_id # email_id}
        \cup {[email_id |-> email_id, is_receipt |-> is_receipt,
               ynab_transaction_id |-> ynab_id, run_id |-> rid]}

\* Mutant: the non-receipts are not marked.
mark_all_non_receipts_skipped(table, ids, i, rid) == table

RECURSIVE mark_all_non_receipts(_, _, _, _)
\* for email_id in non_receipt_emails: mark_processed(email_id, False, run_id=run_id)
mark_all_non_receipts(table, ids, i, rid) ==
    IF i > Len(ids) THEN table
    ELSE mark_all_non_receipts(mark_processed(table, ids[i], FALSE, None, rid),
                               ids, i + 1, rid)

\* get_cached_classification(email_id): the cached result or None.
get_cached_classification(email_id) ==
    IF \E c \in classification_cache : c.email_id = email_id
    THEN Some((CHOOSE c \in classification_cache : c.email_id = email_id).result)
    ELSE None

\* Mutant: the result is not stored.
cache_classification_lost(table, email_id, result) == table

\* cache_classification(email_id, result): INSERT OR REPLACE.
cache_classification(table, email_id, result) ==
    {c \in table : c.email_id # email_id}
        \cup {[email_id |-> email_id, result |-> result]}

\* start_run(): INSERT INTO runs (run_id, started_at).
start_run(table, rid) ==
    table \cup {[run_id |-> rid, completed_at |-> None,
                 transactions_created |-> 0]}

\* complete_run(run_id, transactions_created) at clock reading t.
complete_run(table, rid, transactions_created, t) ==
    {IF r.run_id = rid
     THEN [r EXCEPT !.completed_at = Some(t),
                    !.transactions_created = transactions_created]
     ELSE r : r \in table}

\* Mutant: the newest run, completed or not.
get_last_run_any(table) ==
    IF table = {} THEN None
    ELSE LET r == CHOOSE x \in table : \A y \in table : y.run_id <= x.run_id
         IN  Some([run_id |-> r.run_id,
                   transactions_created |-> r.transactions_created])

\* get_last_run(): WHERE completed_at IS NOT NULL ORDER BY completed_at DESC
\* LIMIT 1.
get_last_run(table) ==
    LET completed == {r \in table : r.completed_at # None}
    IN  IF completed = {} THEN None
        ELSE LET r == CHOOSE x \in completed :
                        \A y \in completed :
                            Get(y.completed_at) <= Get(x.completed_at)
             IN  Some([run_id |-> r.run_id,
                       transactions_created |-> r.transactions_created])

RECURSIVE SortedIds(_)
\* The elements of a set of integers in increasing order.
SortedIds(S) ==
    IF S = {} THEN <<>>
    ELSE LET m == CHOOSE x \in S : \A y \in S : x <= y
         IN  <<m>> \o SortedIds(S \ {m})

\* Mutant: the rows are not filtered by run.
get_transactions_for_run_any_run(table, rid) ==
    SortedIds({Get(r.ynab_transaction_id) :
                  r \in {x \in table : x.ynab_transaction_id # None}})

\* get_transactions_for_run(run_id): WHERE run_id = ? AND ynab_transaction_id
\* IS NOT NULL, as the list of transaction ids.
get_transactions_for_run(table, rid) ==
    SortedIds({Get(r.ynab_transaction_id) :
                  r \in {x \in table : x.run_id = rid
                                       /\ x.ynab_transaction_id # None}})

\* Mutant: only the run row is deleted.
delete_run_records_runs_only(store, rid) ==
    [processed_emails |-> store.processed_emails,
     runs |-> {r \in store.runs : r.run_id # rid}]

\* delete_run_records(run_id): both DELETEs.
delete_run_records(store, rid) ==
    [processed_emails |-> {r \in store.processed_emails : r.run_id # rid},
     runs |-> {r \in store.runs : r.run_id # rid}]

----------------------------------------------------------------------------
(* Budgeting service *)

\* Ids the service hands out are fresh: rows are never removed on the server
\* side of the model (a deleted transaction keeps its row, marked deleted; its
\* import_id still blocks a reimport, which is what --force is for).
next_ynab_id == Cardinality(ynab_transactions) + Cardinality(ynab_scheduled) + 1

\* to_milliunits(amount, is_inflow), amount in cents.
to_milliunits(amount, is_inflow) ==
    IF is_inflow THEN amount * 10 ELSE 0 - amount * 10

RECURSIVE ynab_post_transactions(_, _, _, _)
\* POST /budgets/{id}/transactions with a list: the service creates a row for
\* every item whose import_id it has not seen and reports the others in
\* duplicate_import_ids.  acc = [rows, created_ids, duplicate_import_ids].
ynab_post_transactions(batch, i, acc, rid) ==
    IF i > Len(batch) THEN acc
    ELSE LET pt == batch[i]
             new_id == next_ynab_id + Len(acc.created_ids)
         IN  IF \E row \in acc.rows : row.import_id = pt.import_id
             THEN ynab_post_transactions(batch, i + 1,
                      [acc EXCEPT !.duplicate_import_ids = @ \cup {pt.import_id}],
                      rid)
             ELSE ynab_post_transactions(batch, i + 1,
                      [acc EXCEPT
                          !.rows = @ \cup {[id |-> new_id,
                                            import_id |-> pt.import_id,
                                            date |-> pt.date,
                                            amount |-> to_milliunits(pt.amount, pt.is_inflow),
                                            email_id |-> pt.email_id,
                                            run_id |-> rid,
                                            deleted |-> FALSE]},
                          !.created_ids = Append(@, new_id)],
                      rid)

RECURSIVE map_batch_results(_, _, _, _, _)
\* create_ynab_transactions_batch, "Map results back to email IDs":
\* created_idx counts from 0 as in the source.
map_batch_results(batch, i, created_ids, duplicate_import_ids, created_idx) ==
    IF i > Len(batch) THEN <<>>
    ELSE IF batch[i].import_id \in duplicate_import_ids
         THEN <<[email_id |-> batch[i].email_id, ynab_id |-> None,
                 already_existed |-> TRUE]>>
              \o map_batch_results(batch, i + 1, created_ids,
                                   duplicate_import_ids, created_idx)
         ELSE <<[email_id |-> batch[i].email_id,
                 ynab_id |-> IF created_idx < Len(created_ids)
                             THEN Some(created_ids[created_idx + 1])
                             ELSE None,
                 already_existed |-> FALSE]>>
              \o map_batch_results(batch, i + 1, created_ids,
                                   duplicate_import_ids, created_idx + 1)

RECURSIVE record_batch_results_all_created(_, _, _, _)
\* Mutant: a duplicate is counted as a creation.
record_batch_results_all_created(results, i, acc, rid) ==
    IF i > Len(results) THEN acc
    ELSE record_batch_results_all_created(results, i + 1,
             [table |-> mark_processed(acc.table, results[i].email_id, TRUE,
                                       results[i].ynab_id, rid),
              stats |-> [acc.stats EXCEPT !.receipts_added = @ + 1]],
             rid)

RECURSIVE record_batch_results(_, _, _, _)
\* for email_id, ynab_id, already_existed in results: count and mark_processed.
\* acc = [table, stats].
record_batch_results(results, i, acc, rid) ==
    IF i > Len(results) THEN acc
    ELSE LET r == results[i]
         IN  record_batch_results(results, i + 1,
                 [table |-> mark_processed(acc.table, r.email_id, TRUE,
                                           r.ynab_id, rid),
                  stats |-> IF r.already_existed
                            THEN [acc.stats EXCEPT !.duplicates = @ + 1]
                            ELSE [acc.stats EXCEPT !.receipts_added = @ + 1]],
                 rid)

\* delete_ynab_transaction(transaction_id): DELETE .../transactions/{id}.
\* fails: the request raises (an error status other than 404, or a timeout).
\* Only a live row of the transactions collection is found; a scheduled
\* transaction lives under another endpoint and answers 404 here.
delete_ynab_transaction(rows, id, fails) ==
    IF fails THEN [rows |-> rows, outcome |-> "error"]
    ELSE IF \E row \in rows : row.id = id /\ ~row.deleted
    THEN [rows |-> {IF row.id = id THEN [row EXCEPT !.deleted = TRUE] ELSE row :
                        row \in rows},
          outcome |-> "deleted"]
    ELSE [rows |-> rows, outcome |-> "not_found"]

RECURSIVE undo_deletions_stop_at_error(_, _, _, _)
\* Mutant: the first failing delete ends the loop.
undo_deletions_stop_at_error(ids, i, acc, errs) ==
    IF i > Len(ids) THEN acc
    ELSE LET d == delete_ynab_transaction(acc.rows, ids[i], ids[i] \in errs)
             acc2 == [rows |-> d.rows,
                      calls |-> Append(acc.calls,
                                       [id |-> ids[i], outcome |-> d.outcome])]
         IN  IF d.outcome = "error" THEN acc2
             ELSE undo_deletions_stop_at_error(ids, i + 1, acc2, errs)

RECURSIVE undo_deletions(_, _, _, _)
\* _undo_last_run_impl, "for _, ynab_id in transactions": every id gets its
\* delete call; an exception is caught and counted.  acc = [rows, calls].
undo_deletions(ids, i, acc, errs) ==
    IF i > Len(ids) THEN acc
    ELSE LET d == delete_ynab_transaction(acc.rows, ids[i], ids[i] \in errs)
         IN  undo_deletions(ids, i + 1,
                 [rows |-> d.rows,
                  calls |-> Append(acc.calls,
                                   [id |-> ids[i], outcome |-> d.outcome])],
                 errs)

----------------------------------------------------------------------------
(* Gates and the transaction builder of the scan loop *)

\* Mutant: the threshold gate lets every score through.
below_threshold_never(result, threshold) == FALSE

\* if result.score < CONFIG["min_score"]
below_threshold(result, threshold) == result.score < threshold

\* Mutant: the amount gate is missing.
missing_amount_never(result) == FALSE

\* if result.amount is None
missing_amount(result) == result.amount = None

\* final_payee = result.matched_payee or result.merchant or "Unknown"
final_payee(result) ==
    IF TruthyStr(result.matched_payee) THEN Get(result.matched_payee)
    ELSE IF TruthyStr(result.merchant) THEN Get(result.merchant)
    ELSE "Unknown"

\* Mutant: the exception leaves the loop and ends the invocation.
scan_loop_except_propagates(position) == [pc |-> "idle", idx |-> position]

\* except Exception as e: errors += 1.  The loop goes on with the next email.
scan_loop_except(position) == [pc |-> "scan", idx |-> position + 1]

\* Mutant: every future date goes to the scheduled transactions API.
use_scheduled_api_any_future(is_future, date_confidence) == is_future

\* use_scheduled_api = is_future and result.date_confidence == "certain"
use_scheduled_api(is_future, date_confidence) ==
    is_future /\ date_confidence = Some("certain")

\* The body of the scan loop after the classification: None when the email is
\* appended to non_receipt_emails, else the PendingTransaction that is built.
\* day and t are the readings of the clock the code takes.
build_pending(email, result, day, threshold, is_force, rid, t) ==
    IF below_threshold(result, threshold) THEN None
    ELSE IF missing_amount(result) THEN None
    ELSE LET v == validate_transaction_date(result.date, email.received_at, day)
             is_future == v[2]
         IN  IF v[1] = None THEN None
             ELSE LET scheduled == use_scheduled_api(is_future, result.date_confidence)
                      transaction_date ==
                          IF is_future /\ ~scheduled THEN DateStr(day)
                          ELSE Get(v[1])
                      account ==
                          get_account_for_transaction(result.account_name, accounts)
                  IN  Some([email_id |-> email.id,
                            account_id |-> account.ynab_id,
                            amount |-> Get(result.amount),
                            date |-> transaction_date,
                            payee_name |-> truncate_50(final_payee(result)),
                            memo |-> rid,
                            import_id |->
                                IF scheduled THEN None
                                ELSE Some(generate_import_id(email.id,
                                              Get(result.amount), transaction_date,
                                              is_force, t)),
                            is_inflow |-> result.is_inflow,
                            is_scheduled |-> scheduled])

----------------------------------------------------------------------------
(* Initial state: an empty store (init_db on a fresh file), an empty budget *)

\* The processes that may invoke the script at the same time.
Procs == {1, 2}

\* A process that is not running the script.
ProcOff == [pc |-> "off", kind |-> "none", force |-> FALSE, clear_cache |-> FALSE,
            at |-> 0, wrote |-> FALSE, exit |-> "none", arrivals |-> 0,
            env |-> DefaultEnv, status |-> None]

ZeroStats == [receipts_added |-> 0, scheduled_added |-> 0, duplicates |-> 0,
              skipped |-> 0, cached |-> 0, errors |-> 0]

EmptyStore == [processed_emails |-> {}, classification_cache |-> {}, runs |-> {}]

\* The state after construction for the inbox the fetch will return and the
\* account list in ACCOUNTS.
InitFor(box, account_list) ==
    /\ processed_emails = {}
    /\ classification_cache = {}
    /\ runs = {}
    /\ ynab_transactions = {}
    /\ ynab_scheduled = {}
    /\ today = Day0
    /\ clock = 0
    /\ inbox = box
    /\ min_score = DefaultMinScore
    /\ pc = "idle"
    /\ mode = "none"
    /\ force = FALSE
    /\ run_id = 0
    /\ idx = 1
    /\ pending_transactions = <<>>
    /\ non_receipt_emails = <<>>
    /\ scheduled_transactions = <<>>
    /\ regular_transactions = <<>>
    /\ si = 1
    /\ bi = 1
    /\ stats = ZeroStats
    /\ outcome = "none"
    /\ invocations = 0
    /\ pre = EmptyStore
    /\ classifier_calls = {}
    /\ found_processed = {}
    /\ handled = {}
    /\ create_calls = <<>>
    /\ delete_calls = <<>>
    /\ undo_target = None
    /\ undone_emails = {}
    /\ dropped_cache = {}
    /\ failed_emails = {}
    /\ import_id_calls = {}
    /\ classify_calls = {}
    /\ validate_calls = {}
    /\ classifier_returned = {}
    /\ deselected = {}
    /\ lock = None
    /\ proc = [p \in Procs |-> ProcOff]
    /\ dropped_in = 0
    /\ accounts = account_list

\* The configuration is valid and loaded: ACCOUNTS holds the account list.
InitWith(box) == InitFor(box, ACCOUNTS)

Init == InitWith(Inbox)

CurrentStore == [processed_emails |-> processed_emails,
                 classification_cache |-> classification_cache,
                 runs |-> runs]

CachedIds(table) == {c.email_id : c \in table}

PendingIds(txns) == {txns[i].email_id : i \in 1..Len(txns)}

\* The emails of the creation requests that failed, each with whether the
\* ledger given (the one the run began with) had a row for it.
FailedSubmissions(calls, table) ==
    {<<e, \E r \in table : r.email_id = e>> :
        e \in UNION {PendingIds(calls[i].items) :
                        i \in {j \in 1..Len(calls) : ~calls[j].ok}}}

----------------------------------------------------------------------------
(* The import run: __main__, process_emails, _process_emails_impl *)

\* __main__ without --undo up to the scan loop: the optional DROP TABLE of
\* --clear-cache, init_db, start_run, the payee refresh and the email fetch.
\* startup: "ok", or the call that raises out of the invocation.
StartImport(is_force, clear_cache, threshold, startup) ==
    /\ pc = "idle"
    /\ invocations < MaxInvocations
    /\ invocations' = invocations + 1
    /\ pre' = CurrentStore
    /\ mode' = "import"
    /\ force' = is_force
    /\ min_score' = threshold
    /\ classification_cache' = IF clear_cache THEN {} ELSE classification_cache
    /\ dropped_cache' = IF clear_cache
                        THEN dropped_cache \cup CachedIds(classification_cache)
                        ELSE dropped_cache \ CachedIds(classification_cache)
    /\ run_id' = invocations + 1
    /\ runs' = start_run(runs, invocations + 1)
    /\ idx' = 1
    /\ pending_transactions' = <<>>
    /\ non_receipt_emails' = <<>>
    /\ scheduled_transactions' = <<>>
    /\ regular_transactions' = <<>>
    /\ si' = 1
    /\ bi' = 1
    /\ stats' = ZeroStats
    /\ classifier_calls' = {}
    /\ found_processed' = {}
    /\ handled' = {}
    /\ create_calls' = <<>>
    /\ delete_calls' = <<>>
    /\ undo_target' = None
    /\ undone_emails' = IF mode = "undo" /\ ~is_force THEN undone_emails ELSE {}
    /\ IF startup = "ok"
       THEN pc' = "scan" /\ outcome' = "running"
       ELSE pc' = "idle" /\ outcome' = startup
    /\ failed_emails' = IF mode = "import"
                        THEN FailedSubmissions(create_calls, pre.processed_emails)
                        ELSE {}
    /\ classifier_returned' = IF clear_cache THEN {} ELSE classifier_returned
    /\ UNCHANGED <<processed_emails, ynabVars, today, clock, inbox,
                   harnessVars, deselected>>

\* One iteration of "for email in emails".
ScanEmail ==
    /\ pc = "scan"
    /\ idx <= Len(inbox)
    /\ LET email == inbox[idx]
           hit == get_cached_classification(email.id)
       IN  /\ found_processed' =
                  IF \E r \in processed_emails : r.email_id = email.id
                  THEN found_processed \cup {email.id}
                  ELSE found_processed
           /\ \/ \* already processed: skipped
                 /\ ~force /\ is_processed(email.id)
                 /\ stats' = [stats EXCEPT !.skipped = @ + 1]
                 /\ idx' = idx + 1
                 /\ UNCHANGED <<classification_cache, classifier_calls, handled,
                                pending_transactions, non_receipt_emails, clock,
                                dropped_cache, pc, classifier_returned>>
              \/ \* the classifier call raises: caught by the loop, counted
                 /\ ~(~force /\ is_processed(email.id))
                 /\ hit = None
                 /\ classifier_calls' = classifier_calls \cup {email.id}
                 /\ stats' = [stats EXCEPT !.errors = @ + 1]
                 /\ pc' = scan_loop_except(idx).pc
                 /\ idx' = scan_loop_except(idx).idx
                 /\ UNCHANGED <<classification_cache, handled,
                                pending_transactions, non_receipt_emails, clock,
                                dropped_cache, classifier_returned>>
              \/ \* the classifier returns a result that cache_classification
                 \* cannot store: execute() raises, caught by the loop, counted
                 /\ ~(~force /\ is_processed(email.id))
                 /\ hit = None
                 /\ \E result \in {r \in ClassifierResults(email.id) :
                                       ~sqlite_binds(r)} :
                        classifier_returned' =
                            classifier_returned
                                \cup {<<email.id, run_id, result>>}
                 /\ classifier_calls' = classifier_calls \cup {email.id}
                 /\ stats' = [stats EXCEPT !.errors = @ + 1]
                 /\ pc' = scan_loop_except(idx).pc
                 /\ idx' = scan_loop_except(idx).idx
                 /\ UNCHANGED <<classification_cache, handled,
                                pending_transactions, non_receipt_emails, clock,
                                dropped_cache>>
              \/ \* a result, from the cache or from the classifier
                 /\ ~(~force /\ is_processed(email.id))
                 /\ \E result \in (IF hit = None
                                   THEN {r \in ClassifierResults(email.id) :
                                             sqlite_binds(r)}
                                   ELSE {Get(hit)}) :
                      LET built == build_pending(email, result, today, min_score,
                                                 force, run_id, clock)
                      IN  /\ IF hit = None
                             THEN /\ classifier_calls' =
                                         classifier_calls \cup {email.id}
                                  /\ classification_cache' =
                                         cache_classification(classification_cache,
                                                              email.id, result)
                                  /\ classifier_returned' =
                                         classifier_returned
                                             \cup {<<email.id, run_id, result>>}
                                  /\ dropped_cache' = dropped_cache
                                  /\ stats' = stats
                             ELSE /\ stats' = [stats EXCEPT !.cached = @ + 1]
                                  /\ UNCHANGED <<classifier_calls,
                                                 classification_cache,
                                                 dropped_cache,
                                                 classifier_returned>>
                          /\ handled' = handled \cup {<<email.id, result>>}
                          /\ IF built = None
                             THEN /\ non_receipt_emails' =
                                         Append(non_receipt_emails, email.id)
                                  /\ UNCHANGED <<pending_transactions, clock>>
                             ELSE /\ pending_transactions' =
                                         Append(pending_transactions, Get(built))
                                  /\ clock' = IF force /\ ~Get(built).is_scheduled
                                              THEN clock + 1 ELSE clock
                                  /\ UNCHANGED non_receipt_emails
                 /\ idx' = idx + 1
                 /\ pc' = pc
    /\ UNCHANGED <<processed_emails, runs, ynabVars, today, inbox, min_score,
                   mode, force, run_id, scheduled_transactions,
                   regular_transactions, si, bi, outcome, invocations, pre,
                   create_calls, delete_calls, undo_target, undone_emails,
                   failed_emails, harnessVars, deselected>>

\* Mutant: the deselected candidates are not marked.
mark_deselected_skipped(table, original_pending, i, selected_ids, rid) == table

RECURSIVE mark_deselected(_, _, _, _, _)
\* for txn in original_pending: if txn.email_id not in selected_ids:
\*     mark_processed(txn.email_id, is_receipt=True, ynab_id=None, run_id=run_id)
mark_deselected(table, original_pending, i, selected_ids, rid) ==
    IF i > Len(original_pending) THEN table
    ELSE mark_deselected(
             IF original_pending[i].email_id \in selected_ids THEN table
             ELSE mark_processed(table, original_pending[i].email_id, TRUE,
                                 None, rid),
             original_pending, i + 1, selected_ids, rid)

IsScheduled(t) == t.is_scheduled
\* Mutant: every confirmed transaction is put into the batches.
IsRegular_everything(t) == TRUE
IsRegular(t) == ~t.is_scheduled

\* After the loop: the non-receipts are marked, then the confirmation step.
\* cancel: the user presses Ctrl+C; selected_ids: what the user leaves checked.
Review(cancel, selected_ids) ==
    /\ pc = "scan"
    /\ idx > Len(inbox)
    /\ LET marked == mark_all_non_receipts(processed_emails, non_receipt_emails,
                                           1, run_id)
           selected == SelectSeq(pending_transactions,
                                 LAMBDA t : t.email_id \in selected_ids)
       IN  IF pending_transactions = <<>>
           THEN \* "No transactions to review."
                /\ processed_emails' = marked
                /\ pc' = "idle"
                /\ outcome' = "no_transactions"
                /\ UNCHANGED <<pending_transactions, scheduled_transactions,
                               regular_transactions>>
           ELSE IF cancel
           THEN \* "Cancelled. No emails marked as processed."
                /\ processed_emails' = marked
                /\ pc' = "idle"
                /\ outcome' = "cancelled"
                /\ UNCHANGED <<pending_transactions, scheduled_transactions,
                               regular_transactions>>
           ELSE /\ processed_emails' =
                       mark_deselected(marked, pending_transactions, 1,
                                       selected_ids, run_id)
                /\ pending_transactions' = selected
                /\ scheduled_transactions' = SelectSeq(selected, IsScheduled)
                /\ regular_transactions' = SelectSeq(selected, IsRegular)
                /\ IF selected = <<>>
                   THEN pc' = "idle" /\ outcome' = "none_selected"
                   ELSE pc' = "submit" /\ outcome' = outcome
    /\ deselected' =
           IF cancel THEN deselected
           ELSE LET unchecked == PendingIds(pending_transactions) \ selected_ids
                IN  {d \in deselected : d.email_id \notin unchecked}
                        \cup {[email_id |-> e, run_id |-> run_id,
                                undone |-> FALSE] : e \in unchecked}
    /\ UNCHANGED <<classification_cache, runs, ynabVars, today, clock, inbox,
                   min_score, mode, force, run_id, idx, non_receipt_emails, si,
                   bi, stats, invocations, pre, classifier_calls,
                   found_processed, handled, create_calls, delete_calls,
                   undo_target, undone_emails, dropped_cache, failed_emails, harnessVars,
                   classifier_returned>>

\* One iteration of "for txn in scheduled_transactions"; ok: the request
\* succeeds (else it raises, is caught and counted).
CreateScheduled(ok) ==
    /\ pc = "submit"
    /\ si <= Len(scheduled_transactions)
    /\ LET txn == scheduled_transactions[si]
           scheduled_id == next_ynab_id
       IN  /\ create_calls' = Append(create_calls,
                                     [op |-> "scheduled", items |-> <<txn>>,
                                      ok |-> ok])
           /\ IF ok
              THEN /\ ynab_scheduled' = ynab_scheduled \cup
                          {[id |-> scheduled_id, date |-> txn.date,
                            amount |-> to_milliunits(txn.amount, txn.is_inflow),
                            email_id |-> txn.email_id, run_id |-> run_id]}
                   /\ processed_emails' =
                          mark_processed(processed_emails, txn.email_id, TRUE,
                                         Some(scheduled_id), run_id)
                   /\ stats' = [stats EXCEPT !.scheduled_added = @ + 1]
              ELSE /\ stats' = [stats EXCEPT !.errors = @ + 1]
                   /\ UNCHANGED <<ynab_scheduled, processed_emails>>
    /\ si' = si + 1
    /\ UNCHANGED <<classification_cache, runs, ynab_transactions, today, clock,
                   inbox, min_score, pc, mode, force, run_id, idx,
                   pending_transactions, non_receipt_emails,
                   scheduled_transactions, regular_transactions, bi, outcome,
                   invocations, pre, classifier_calls, found_processed, handled,
                   delete_calls, undo_target, undone_emails, dropped_cache,
                   failed_emails, harnessVars, classifier_returned,
                   deselected>>

\* Mutant: a rejected batch is not counted.
on_batch_error_uncounted(counters, batch) == counters

\* except Exception as e: errors += len(batch).  Nothing is marked processed.
on_batch_error(counters, batch) ==
    [counters EXCEPT !.errors = @ + Len(batch)]

\* Mutant: a batch carries again what the batches before it carried.
batch_of_resending(txns, b) == SubSeq(txns, 1, Min(b * BatchSize, Len(txns)))

\* regular_transactions[i : i + batch_size] for the batch numbered b (from 1).
batch_of(txns, b) ==
    SubSeq(txns, (b - 1) * BatchSize + 1, Min(b * BatchSize, Len(txns)))

\* Mutant: only the first batch is sent.
NumBatches_first_only(txns) == IF txns = <<>> THEN 0 ELSE 1

\* The iterations of range(0, len(regular_transactions), batch_size).
NumBatches(txns) == (Len(txns) + BatchSize - 1) \div BatchSize

\* One iteration of "for i in range(0, len(regular_transactions), batch_size)".
\* reply: what the request meets.  "ok": the service creates the transactions
\* and lists their ids; "short": it creates them and its answer lists one id
\* fewer; "error": the request raises and nothing is created; "lost": the
\* service creates them but the request raises (the answer does not arrive
\* within the timeout).
CreateBatchWith(reply) ==
    /\ pc = "submit"
    /\ si > Len(scheduled_transactions)
    /\ bi <= NumBatches(regular_transactions)
    /\ LET batch == batch_of(regular_transactions, bi)
           posted == ynab_post_transactions(batch, 1,
                         [rows |-> ynab_transactions, created_ids |-> <<>>,
                          duplicate_import_ids |-> {}], run_id)
           listed_ids == IF reply = "short"
                         THEN SubSeq(posted.created_ids, 1,
                                     Len(posted.created_ids) - 1)
                         ELSE posted.created_ids
           results == map_batch_results(batch, 1, listed_ids,
                                        posted.duplicate_import_ids, 0)
           recorded == record_batch_results(results, 1,
                           [table |-> processed_emails, stats |-> stats], run_id)
           ok == reply \in {"ok", "short"}
       IN  /\ create_calls' = Append(create_calls,
                                     [op |-> "batch", items |-> batch, ok |-> ok])
           /\ ynab_transactions' = IF reply = "error" THEN ynab_transactions
                                   ELSE posted.rows
           /\ IF ok
              THEN /\ processed_emails' = recorded.table
                   /\ stats' = recorded.stats
              ELSE /\ stats' = on_batch_error(stats, batch)
                   /\ UNCHANGED processed_emails
    /\ bi' = bi + 1
    /\ UNCHANGED <<classification_cache, runs, ynab_scheduled, today, clock,
                   inbox, min_score, pc, mode, force, run_id, idx,
                   pending_transactions, non_receipt_emails,
                   scheduled_transactions, regular_transactions, si, outcome,
                   invocations, pre, classifier_calls, found_processed, handled,
                   delete_calls, undo_target, undone_emails, dropped_cache,
                   failed_emails, harnessVars, classifier_returned,
                   deselected>>

\* One iteration of the batch loop with a service that answers every request
\* it gets in full; ok: the request succeeds (else it raises with nothing
\* created, is caught and counted).
CreateBatch(ok) == CreateBatchWith(IF ok THEN "ok" ELSE "error")

\* "Complete the run" and the summary.
CompleteRun ==
    /\ pc = "submit"
    /\ si > Len(scheduled_transactions)
    /\ bi > NumBatches(regular_transactions)
    /\ runs' = IF scheduled_transactions # <<>> \/ regular_transactions # <<>>
               THEN complete_run(runs, run_id,
                                 stats.receipts_added + stats.scheduled_added,
                                 clock + 1)
               ELSE complete_run(runs, run_id, 0, clock + 1)
    /\ clock' = clock + 1
    /\ pc' = "idle"
    /\ outcome' = "completed"
    /\ UNCHANGED <<processed_emails, classification_cache, ynabVars, today,
                   inbox, min_score, mode, force, localVars, invocations, pre,
                   classifier_calls, found_processed, handled, create_calls,
                   delete_calls, undo_target, undone_emails, dropped_cache,
                   failed_emails, harnessVars, classifier_returned,
                   deselected>>

----------------------------------------------------------------------------
(* --undo: undo_last_run, _undo_last_run_impl *)

RunEmails(table, rid) == {r.email_id : r \in {x \in table : x.run_id = rid}}

\* errs: the transaction ids whose delete request raises.
UndoLastRun(errs) ==
    /\ pc = "idle"
    /\ invocations < MaxInvocations
    /\ invocations' = invocations + 1
    /\ pre' = CurrentStore
    /\ mode' = "undo"
    /\ force' = FALSE
    /\ classifier_calls' = {}
    /\ found_processed' = {}
    /\ handled' = {}
    /\ create_calls' = <<>>
    /\ LET last_run == get_last_run(runs)
       IN  /\ undo_target' = last_run
           /\ IF last_run = None
              THEN \* "No runs found to undo."
                   /\ errs = {}
                   /\ outcome' = "no_runs"
                   /\ delete_calls' = <<>>
                   /\ undone_emails' = {}
                   /\ UNCHANGED <<processed_emails, runs, ynab_transactions>>
              ELSE LET rid == Get(last_run).run_id
                       transactions == get_transactions_for_run(processed_emails, rid)
                       done == undo_deletions(transactions, 1,
                                   [rows |-> ynab_transactions, calls |-> <<>>],
                                   errs)
                       cleaned == delete_run_records(
                                      [processed_emails |-> processed_emails,
                                       runs |-> runs], rid)
                   IN  /\ errs \subseteq {transactions[i] : i \in 1..Len(transactions)}
                       /\ outcome' = IF transactions = <<>> THEN "undo_cleaned"
                                     ELSE "undone"
                       /\ delete_calls' = done.calls
                       /\ ynab_transactions' = done.rows
                       /\ processed_emails' = cleaned.processed_emails
                       /\ runs' = cleaned.runs
                       /\ undone_emails' = RunEmails(processed_emails, rid)
    /\ deselected' =
           {[d EXCEPT !.undone =
                 @ \/ \E r \in processed_emails \ processed_emails' :
                          r.email_id = d.email_id] : d \in deselected}
    /\ dropped_cache' = dropped_cache \ CachedIds(classification_cache)
    /\ failed_emails' = {}
    /\ UNCHANGED <<classification_cache, ynab_scheduled, today, clock, inbox,
                   min_score, pc, localVars, harnessVars, classifier_returned>>

----------------------------------------------------------------------------
(* Time *)

\* Midnight passes between two invocations.
AdvanceDay ==
    /\ pc = "idle"
    /\ today < Day0 + MaxDayAdvance
    /\ today' = today + 1
    /\ UNCHANGED <<storeVars, ynabVars, clock, inbox, min_score, pc, mode, force,
                   localVars, outcome, invocations, pre, classifier_calls,
                   found_processed, handled, create_calls, delete_calls,
                   undo_target, undone_emails, dropped_cache, failed_emails, harnessVars,
                   classifier_returned, deselected>>

----------------------------------------------------------------------------
Startups == {"ok", "payee_refresh_failed", "fetch_failed"}

Next ==
    \/ \E is_force \in BOOLEAN, clear_cache \in BOOLEAN, threshold \in MinScores,
          startup \in Startups :
          StartImport(is_force, clear_cache, threshold, startup)
    \/ ScanEmail
    \/ \E selected_ids \in SUBSET PendingIds(pending_transactions) :
          Review(FALSE, selected_ids)
    \/ Review(TRUE, {})
    \/ \E ok \in BOOLEAN : CreateScheduled(ok)
    \/ \E ok \in BOOLEAN : CreateBatch(ok)
    \/ CompleteRun
    \/ \E errs \in SUBSET {r.id : r \in ynab_transactions \cup ynab_scheduled} :
          UndoLastRun(errs)
    \/ AdvanceDay

Spec == Init /\ [][Next]_vars

----------------------------------------------------------------------------
(* generate_import_id applied to bounded inputs *)

ImportIdEmails == {"e1", "e2"}
ImportIdAmounts == {4217, 1299}
ImportIdDates == {DateStr(Day0), DateStr(Day0 + 1)}

\* One call of generate_import_id at the current clock reading.
CallGenerateImportId(email_id, amount, date, is_force) ==
    /\ Cardinality(import_id_calls) < MaxImportIdCalls
    /\ import_id_calls' = import_id_calls \cup
           {[email_id |-> email_id, amount |-> amount, date |-> date,
             force |-> is_force, clock |-> clock,
             key |-> generate_import_id(email_id, amount, date, is_force, clock)]}
    /\ UNCHANGED <<storeVars, ynabVars, today, clock, inbox, min_score, pc, mode,
                   force, localVars, outcome, invocations, pre, classifier_calls,
                   found_processed, handled, create_calls, delete_calls,
                   undo_target, undone_emails, dropped_cache, failed_emails,
                   classify_calls, validate_calls, lockVars, accounts,
                   classifier_returned, deselected>>

\* Time passes between two calls.
TickClock ==
    /\ clock < MaxClock
    /\ clock' = clock + 1
    /\ UNCHANGED <<storeVars, ynabVars, today, inbox, min_score, pc, mode,
                   force, localVars, outcome, invocations, pre, classifier_calls,
                   found_processed, handled, create_calls, delete_calls,
                   undo_target, undone_emails, dropped_cache, failed_emails, harnessVars,
                   classifier_returned, deselected>>

NextImportId ==
    \/ \E email_id \in ImportIdEmails, amount \in ImportIdAmounts,
          date \in ImportIdDates, is_force \in BOOLEAN :
          CallGenerateImportId(email_id, amount, date, is_force)
    \/ TickClock

SpecImportId == Init /\ [][NextImportId]_vars

----------------------------------------------------------------------------
(* Import runs over one email whose classifier response is any of Responses,
   under every threshold from 1 to 10 *)

ParseInbox == << Email("p1", DateStr(Day0 - 1)) >>

\* "min_score": Min AI score (1-10) to import.
ValidMinScores == 1..10

NextParse ==
    \/ \E is_force \in BOOLEAN, clear_cache \in BOOLEAN,
          threshold \in ValidMinScores :
          StartImport(is_force, clear_cache, threshold, "ok")
    \/ ScanEmail
    \/ \E selected_ids \in SUBSET PendingIds(pending_transactions) :
          Review(FALSE, selected_ids)
    \/ Review(TRUE, {})
    \/ \E ok \in BOOLEAN : CreateBatch(ok)
    \/ CompleteRun

SpecParse == InitWith(ParseInbox) /\ [][NextParse]_vars

----------------------------------------------------------------------------
(* Import runs over one receipt for which the classifier answers any of the
   matched_payee and merchant members *)

PayeeInbox == << Email("y1", DateStr(Day0 - 1)) >>

NextPayee ==
    \/ \E is_force \in BOOLEAN, clear_cache \in BOOLEAN :
          StartImport(is_force, clear_cache, DefaultMinScore, "ok")
    \/ ScanEmail
    \/ \E selected_ids \in SUBSET PendingIds(pending_transactions) :
          Review(FALSE, selected_ids)
    \/ Review(TRUE, {})
    \/ \E ok \in BOOLEAN : CreateBatch(ok)
    \/ CompleteRun

SpecPayee == InitWith(PayeeInbox) /\ [][NextPayee]_vars

----------------------------------------------------------------------------
(* Import runs over six receipts: more regular transactions than one batch *)

BatchInbox ==
    << Email("b1", DateStr(Day0 - 1)), Email("b2", DateStr(Day0 - 1)),
       Email("b3", DateStr(Day0 - 1)), Email("b4", DateStr(Day0 - 1)),
       Email("b5", DateStr(Day0 - 1)), Email("b6", DateStr(Day0 - 1)) >>

NextBatch ==
    \/ \E is_force \in BOOLEAN :
          StartImport(is_force, FALSE, DefaultMinScore, "ok")
    \/ ScanEmail
    \/ Review(FALSE, PendingIds(pending_transactions))
    \/ \E ok \in BOOLEAN : CreateBatch(ok)
    \/ CompleteRun

SpecBatch == InitWith(BatchInbox) /\ [][NextBatch]_vars

----------------------------------------------------------------------------
(* Two processes that start the script while the other may be running: the
   statements of __main__ before the lock, acquire_lock, the body under the
   lock (the actions above), and the release *)

LockInbox == << Email("e1", DateStr(Day0 - 1)) >>

\* fcntl.flock(LOCK_EX | LOCK_NB) by process p: the lock is taken when no
\* process holds it, else BlockingIOError.
acquire_lock(holder, p) ==
    IF holder = None THEN [acquired |-> TRUE, holder |-> Some(p)]
    ELSE [acquired |-> FALSE, holder |-> holder]

\* The finally of the context manager without its LOCK_UN: the holder stays.
release_lock_leaked(holder, p) == holder

\* The finally of the context manager: flock(LOCK_UN) and close by holder p.
release_lock(holder, p) == IF holder = Some(p) THEN None ELSE holder

\* The classification_cache table is missing for the body that is running:
\* another process dropped it after this body's init_db.
CacheTableMissing == pc # "idle" /\ dropped_in = invocations

\* A process starts the script in the environment env: parse_args and the
\* dispatch on --undo.  With --undo the other flags are ignored.
ArriveWith(p, kind, is_force, clear_cache, env) ==
    /\ proc[p].pc = "off"
    /\ proc[p].arrivals < MaxArrivals
    /\ (kind = "undo") => (~is_force /\ ~clear_cache)
    /\ proc' = [proc EXCEPT ![p] =
                    [pc |-> IF clear_cache THEN "clear" ELSE "lock",
                     kind |-> kind, force |-> is_force,
                     clear_cache |-> clear_cache, at |-> 0, wrote |-> FALSE,
                     exit |-> "none", arrivals |-> @.arrivals + 1,
                     env |-> env, status |-> None]]
    /\ UNCHANGED <<storeVars, ynabVars, today, clock, inbox, min_score, pc, mode,
                   force, localVars, outcome, invocations, pre, classifier_calls,
                   found_processed, handled, create_calls, delete_calls,
                   undo_target, undone_emails, dropped_cache, failed_emails,
                   import_id_calls, classify_calls, validate_calls,
                   lock, dropped_in, accounts, classifier_returned,
                   deselected>>

\* A process starts the script with the valid configuration.
Arrive(p, kind, is_force, clear_cache) ==
    ArriveWith(p, kind, is_force, clear_cache, DefaultEnv)

\* "Handle --clear-cache": DROP TABLE IF EXISTS classification_cache, before
\* process_emails is called.
DropCache(p) ==
    /\ proc[p].pc = "clear"
    /\ classification_cache' = {}
    /\ classifier_returned' = {}
    /\ dropped_cache' = dropped_cache \cup CachedIds(classification_cache)
    /\ dropped_in' = IF pc # "idle" THEN invocations ELSE dropped_in
    /\ proc' = [proc EXCEPT ![p].pc = "lock",
                            ![p].wrote = (classification_cache # {})]
    /\ UNCHANGED <<processed_emails, runs, ynabVars, today, clock, inbox,
                   min_score, pc, mode, force, localVars, outcome, invocations,
                   pre, classifier_calls, found_processed, handled, create_calls,
                   delete_calls, undo_target, undone_emails, failed_emails,
                   import_id_calls, classify_calls, validate_calls,
                   lock, accounts, deselected>>

\* process_emails or undo_last_run up to the body under the lock: the
\* configuration checks, after which the process leaves or goes on to
\* "with acquire_lock()", where the lock is taken or the process exits with
\* "Another instance is already running. Exiting."
AcquireLock(p) ==
    /\ proc[p].pc = "lock"
    /\ invocations < MaxInvocations
    /\ LET checks == IF proc[p].kind = "import"
                     THEN process_emails_checks(proc[p].env, accounts)
                     ELSE undo_last_run_checks(proc[p].env, accounts)
           got == acquire_lock(lock, p)
       IN  /\ accounts' = checks.accounts
           /\ lock' = IF checks.go THEN got.holder ELSE lock
           /\ proc' = IF ~checks.go
                      THEN [proc EXCEPT ![p] =
                                [ProcOff EXCEPT !.exit = checks.exit,
                                                !.status = Some(checks.status),
                                                !.wrote = proc[p].wrote,
                                                !.arrivals = proc[p].arrivals]]
                      ELSE IF got.acquired
                      THEN [proc EXCEPT ![p].pc = "locked", ![p].at = invocations]
                      ELSE [proc EXCEPT ![p] =
                                [ProcOff EXCEPT !.exit = "already_running",
                                                !.status = Some(1),
                                                !.wrote = proc[p].wrote,
                                                !.arrivals = proc[p].arrivals]]
    /\ UNCHANGED <<storeVars, ynabVars, today, clock, inbox, min_score, pc, mode,
                   force, localVars, outcome, invocations, pre, classifier_calls,
                   found_processed, handled, create_calls, delete_calls,
                   undo_target, undone_emails, dropped_cache, failed_emails,
                   import_id_calls, classify_calls, validate_calls,
                   dropped_in, classifier_returned, deselected>>

\* The body under the lock begins: _process_emails_impl up to the scan loop,
\* or the whole of _undo_last_run_impl.
RunLocked(p) ==
    /\ proc[p].pc = "locked"
    /\ lock = Some(p)
    /\ invocations = proc[p].at
    /\ IF proc[p].kind = "import"
       THEN \E startup \in Startups :
                StartImport(proc[p].force, FALSE, proc[p].env.min_score, startup)
       ELSE \E errs \in SUBSET {r.id : r \in ynab_transactions \cup ynab_scheduled} :
                UndoLastRun(errs)

\* One iteration of the scan loop after another process has dropped the
\* cache table: get_cached_classification raises sqlite3.OperationalError,
\* which the loop catches and counts.
ScanEmailTableDropped ==
    /\ pc = "scan"
    /\ idx <= Len(inbox)
    /\ CacheTableMissing
    /\ found_processed' =
           IF \E r \in processed_emails : r.email_id = inbox[idx].id
           THEN found_processed \cup {inbox[idx].id}
           ELSE found_processed
    /\ IF ~force /\ is_processed(inbox[idx].id)
       THEN /\ stats' = [stats EXCEPT !.skipped = @ + 1]
            /\ idx' = idx + 1
            /\ pc' = pc
       ELSE /\ stats' = [stats EXCEPT !.errors = @ + 1]
            /\ pc' = scan_loop_except(idx).pc
            /\ idx' = scan_loop_except(idx).idx
    /\ UNCHANGED <<storeVars, ynabVars, today, clock, inbox, min_score, mode,
                   force, run_id, pending_transactions, non_receipt_emails,
                   scheduled_transactions, regular_transactions, si, bi, outcome,
                   invocations, pre, classifier_calls, handled, create_calls,
                   delete_calls, undo_target, undone_emails, dropped_cache,
                   failed_emails, harnessVars, classifier_returned,
                   deselected>>

\* The context manager's finally: LOCK_UN when the body has returned or
\* raised.
ReleaseLock(p) ==
    /\ proc[p].pc = "locked"
    /\ lock = Some(p)
    /\ invocations > proc[p].at
    /\ pc = "idle"
    /\ lock' = release_lock(lock, p)
    /\ proc' = [proc EXCEPT ![p] =
                    [ProcOff EXCEPT !.exit = "done",
                                    !.status =
                                        IF outcome \in {"payee_refresh_failed",
                                                        "fetch_failed"}
                                        THEN Some(1) ELSE Some(0),
                                    !.arrivals = proc[p].arrivals]]
    /\ UNCHANGED <<storeVars, ynabVars, today, clock, inbox, min_score, pc, mode,
                   force, localVars, outcome, invocations, pre, classifier_calls,
                   found_processed, handled, create_calls, delete_calls,
                   undo_target, undone_emails, dropped_cache, failed_emails,
                   import_id_calls, classify_calls, validate_calls,
                   dropped_in, accounts, classifier_returned,
                   deselected>>

NextLock ==
    \/ \E p \in Procs, kind \in {"import", "undo"}, is_force \in BOOLEAN,
          clear_cache \in BOOLEAN : Arrive(p, kind, is_force, clear_cache)
    \/ \E p \in Procs : DropCache(p)
    \/ \E p \in Procs : AcquireLock(p)
    \/ \E p \in Procs : RunLocked(p)
    \/ ~CacheTableMissing /\ ScanEmail
    \/ ScanEmailTableDropped
    \/ \E selected_ids \in SUBSET PendingIds(pending_transactions) :
          Review(FALSE, selected_ids)
    \/ Review(TRUE, {})
    \/ \E ok \in BOOLEAN : CreateBatch(ok)
    \/ CompleteRun
    \/ \E p \in Procs : ReleaseLock(p)

SpecLock == InitWith(LockInbox) /\ [][NextLock]_vars

\* select_transactions_interactive is waiting for the user's answer.
PromptOpen == pc = "scan" /\ idx > Len(inbox) /\ pending_transactions # <<>>

\* The statements of the process that holds the lock, other than the wait for
\* the user's answer at the selection prompt.
LockHolderStep ==
    \/ \E p \in Procs : RunLocked(p)
    \/ ~CacheTableMissing /\ ScanEmail
    \/ ScanEmailTableDropped
    \/ ~PromptOpen /\ Review(FALSE, {})
    \/ \E ok \in BOOLEAN : CreateBatch(ok)
    \/ CompleteRun
    \/ \E p \in Procs : ReleaseLock(p)

\* The two processes without --force (it changes nothing about the lock), and
\* with --clear-cache given by the second process only.  The process that
\* holds the lock keeps running: each of its statements ends (a network call
\* returns or times out after 30 s).  Nothing is assumed about when processes
\* start or when the user answers.
NextLockLive ==
    \/ \E p \in Procs, kind \in {"import", "undo"} : Arrive(p, kind, FALSE, FALSE)
    \/ Arrive(2, "import", FALSE, TRUE)
    \/ DropCache(2)
    \/ \E p \in Procs : AcquireLock(p)
    \/ \E p \in Procs : RunLocked(p)
    \/ ~CacheTableMissing /\ ScanEmail
    \/ ScanEmailTableDropped
    \/ \E selected_ids \in SUBSET PendingIds(pending_transactions) :
          Review(FALSE, selected_ids)
    \/ Review(TRUE, {})
    \/ \E ok \in BOOLEAN : CreateBatch(ok)
    \/ CompleteRun
    \/ \E p \in Procs : ReleaseLock(p)

SpecLockFair ==
    InitWith(LockInbox) /\ [][NextLockLive]_vars /\ WF_vars(LockHolderStep)

----------------------------------------------------------------------------
(* One process that starts the script in valid and invalid environments *)

ConfigInbox == << Email("a1", DateStr(Day0 - 1)) >>

Card(default) == AccountEntry(TRUE, Some("Card"), Some("acct-card"), default)
Checking(default) == AccountEntry(TRUE, Some("Checking"), Some("acct-checking"), default)

\* DefaultEnv with another YNAB_ACCOUNTS.
WithAccounts(accounts_env) == [DefaultEnv EXCEPT !.accounts_env = accounts_env]

\* Environments load_accounts and the checks of process_emails accept.
ValidEnvironments ==
    { DefaultEnv,
      WithAccounts(AccountsArray(<<Checking(TRUE)>>)),
      WithAccounts(AccountsArray(<<Card(FALSE), Checking(TRUE)>>)) }

\* Environments with a missing credential or budget id (unset or empty), or
\* an account list that is missing, malformed, without a default or with two.
InvalidEnvironments ==
    { [DefaultEnv EXCEPT !.fastmail_token = None],
      [DefaultEnv EXCEPT !.anthropic_api_key = Some("")],
      [DefaultEnv EXCEPT !.ynab_token = None],
      [DefaultEnv EXCEPT !.ynab_budget_id = None],
      WithAccounts(AccountsUnset),
      WithAccounts(AccountsInvalidJson),
      WithAccounts(AccountsNotArray),
      WithAccounts(AccountsArray(<<>>)),
      WithAccounts(AccountsArray(<<AccountEntry(FALSE, None, None, FALSE)>>)),
      WithAccounts(AccountsArray(<<AccountEntry(TRUE, None, Some("acct-card"), TRUE)>>)),
      WithAccounts(AccountsArray(<<AccountEntry(TRUE, Some("Card"), None, TRUE)>>)),
      WithAccounts(AccountsArray(<<Card(TRUE), Card(FALSE)>>)),
      WithAccounts(AccountsArray(<<Card(FALSE), Checking(FALSE)>>)),
      WithAccounts(AccountsArray(<<Card(TRUE), Checking(TRUE)>>)) }

Environments == ValidEnvironments \cup InvalidEnvironments

NextConfig ==
    \/ \E env \in Environments, is_force \in BOOLEAN, clear_cache \in BOOLEAN :
          ArriveWith(1, "import", is_force, clear_cache, env)
    \/ \E env \in Environments : ArriveWith(1, "undo", FALSE, FALSE, env)
    \/ DropCache(1)
    \/ AcquireLock(1)
    \/ RunLocked(1)
    \/ ScanEmail
    \/ \E selected_ids \in SUBSET PendingIds(pending_transactions) :
          Review(FALSE, selected_ids)
    \/ Review(TRUE, {})
    \/ \E ok \in BOOLEAN : CreateBatch(ok)
    \/ CompleteRun
    \/ ReleaseLock(1)

\* ACCOUNTS is empty until process_emails loads it.
SpecConfig == InitFor(ConfigInbox, <<>>) /\ [][NextConfig]_vars

----------------------------------------------------------------------------
(* validate_transaction_date applied to dates around the ends of its windows,
   on two days *)

\* Distances in days from today: the ends of [today - 5 * 365, today + 90],
\* their neighbours, and the days around today.
CandidateOffsets ==
    {0 - FiveYearsDays - 1, 0 - FiveYearsDays, 1 - FiveYearsDays, 0 - 1, 0, 1,
     NinetyDays - 1, NinetyDays, NinetyDays + 1}
FallbackOffsets == {0 - FiveYearsDays - 1, 0 - FiveYearsDays, 0 - 1, 0, 1}

\* result.date: null, a string strptime rejects, a date.
CandidateDates == {None, Some(BadStr)} \cup {Some(DateStr(today + k)) : k \in CandidateOffsets}

\* email.received_at: a string fromisoformat rejects, a timestamp.
FallbackTimestamps == {BadStr} \cup {DateStr(today + k) : k \in FallbackOffsets}

\* One call of validate_transaction_date today.
CallValidate(date_str, email_received_at) ==
    /\ Cardinality(validate_calls) < MaxValidateCalls
    /\ validate_calls' = validate_calls \cup
           {[date_str |-> date_str, email_received_at |-> email_received_at,
             today |-> today,
             result |-> validate_transaction_date(date_str, email_received_at, today)]}
    /\ UNCHANGED <<storeVars, ynabVars, today, clock, inbox, min_score, pc, mode,
                   force, localVars, outcome, invocations, pre, classifier_calls,
                   found_processed, handled, create_calls, delete_calls,
                   undo_target, undone_emails, dropped_cache, failed_emails,
                   import_id_calls, classify_calls, lockVars, accounts,
                   classifier_returned, deselected>>

NextValidate ==
    \/ \E date_str \in CandidateDates, email_received_at \in FallbackTimestamps :
          CallValidate(date_str, email_received_at)
    \/ AdvanceDay

SpecValidate == Init /\ [][NextValidate]_vars

----------------------------------------------------------------------------
(* classify_email's parsing applied to bounded response texts *)

\* One call of classify_email whose classifier answers with the response.
CallClassify(response) ==
    /\ Cardinality(classify_calls) < MaxClassifyCalls
    /\ classify_calls' = classify_calls \cup
           {[response |-> response, outcome |-> classify_email(response)]}
    /\ UNCHANGED <<storeVars, ynabVars, today, clock, inbox, min_score, pc, mode,
                   force, localVars, outcome, invocations, pre, classifier_calls,
                   found_processed, handled, create_calls, delete_calls,
                   undo_target, undone_emails, dropped_cache, failed_emails,
                   import_id_calls, validate_calls, lockVars, accounts,
                   classifier_returned, deselected>>

NextClassify == \E response \in Responses : CallClassify(response)

SpecClassify == Init /\ [][NextClassify]_vars

----------------------------------------------------------------------------
(* Properties *)

InboxIds == {inbox[i].id : i \in 1..Len(inbox)}
HandledIds == {h[1] : h \in handled}
SubmittedIds ==
    UNION {PendingIds(create_calls[i].items) : i \in 1..Len(create_calls)}
ScannedIds == {inbox[i].id : i \in 1..Min(idx - 1, Len(inbox))}
ImportEnded == mode = "import" /\ pc = "idle"
ServiceRows == ynab_transactions \cup ynab_scheduled
LedgerRow(e) == CHOOSE r \in processed_emails : r.email_id = e
HasLedgerRow(e) == \E r \in processed_emails : r.email_id = e

\* C1: in a run without force, an email that has a ledger row when it is
\* scanned is not given to the classifier, gets no PendingTransaction and is
\* in no request to the budgeting service; a run that finds every email of
\* the inbox in the ledger makes no classifier call and creates nothing.
C1_ProcessedShortCircuit ==
    (mode = "import" /\ ~force) =>
        /\ \A e \in found_processed :
               /\ e \notin classifier_calls
               /\ e \notin HandledIds
               /\ e \notin PendingIds(pending_transactions)
               /\ e \notin SubmittedIds
        /\ (found_processed = InboxIds) =>
               /\ classifier_calls = {}
               /\ create_calls = <<>>
               /\ ~\E row \in ServiceRows : row.run_id = run_id

\* C1 witness: a second run over the same inbox has ended, every email was
\* in the ledger, and the run before it had created a transaction.
C1_Witness ==
    /\ ImportEnded /\ ~force
    /\ idx > Len(inbox)
    /\ found_processed = InboxIds
    /\ stats.skipped = Len(inbox)
    /\ \E row \in ServiceRows : row.run_id < run_id

\* C2 (as claimed): after a cancel at the confirmation step the ledger is as
\* it was when the invocation began.
C2_CancelLeavesLedgerUntouched ==
    (ImportEnded /\ outcome = "cancelled") =>
        /\ processed_emails = pre.processed_emails
        /\ \A e \in ScannedIds : HasLedgerRow(e) => e \in found_processed

\* C3: an undo of the completed run R with transactions_created = N makes at
\* most N delete calls and leaves no ledger row with run_id R and no Run
\* record of R.
C3_UndoBoundedAndCleans ==
    (mode = "undo" /\ undo_target # None) =>
        LET R == Get(undo_target).run_id
            N == (CHOOSE r \in pre.runs : r.run_id = R).transactions_created
        IN  /\ Len(delete_calls) <= N
            /\ ~\E r \in processed_emails : r.run_id = R
            /\ ~\E r \in runs : r.run_id = R

\* C3 witness: an undo of a run that created two transactions made two
\* delete calls.
C3_Witness ==
    /\ mode = "undo" /\ undo_target # None
    /\ Get(undo_target).transactions_created = 2
    /\ Len(delete_calls) = 2
    /\ \E r \in pre.processed_emails : r.run_id = Get(undo_target).run_id

LatestCompleted(table) ==
    CHOOSE r \in {x \in table : x.completed_at # None} :
        \A y \in {x \in table : x.completed_at # None} :
            Get(y.completed_at) <= Get(r.completed_at)

\* C4: undo touches only the completed run with the latest completed_at: the
\* ledger rows and the Run record it removes are that run's, every delete
\* call is for a transaction that run created, and without a completed run
\* the store is unchanged and no delete call is made.
C4_UndoOnlyLatestCompleted ==
    (mode = "undo") =>
        /\ classification_cache = pre.classification_cache
        /\ IF \A r \in pre.runs : r.completed_at = None
           THEN /\ processed_emails = pre.processed_emails
                /\ runs = pre.runs
                /\ delete_calls = <<>>
           ELSE LET latest == LatestCompleted(pre.runs)
                IN  /\ processed_emails =
                           {r \in pre.processed_emails : r.run_id # latest.run_id}
                    /\ runs = pre.runs \ {latest}
                    /\ \A i \in 1..Len(delete_calls) :
                           \E row \in ServiceRows :
                               /\ row.id = delete_calls[i].id
                               /\ row.run_id = latest.run_id

\* C4 witness: an undo with two completed runs in the store, each with
\* transactions in the ledger, has made a delete call.
C4_Witness ==
    /\ mode = "undo"
    /\ Cardinality({r \in pre.runs : r.completed_at # None}) = 2
    /\ Cardinality(runs) = 1
    /\ delete_calls # <<>>
    /\ \E r \in processed_emails : r.ynab_transaction_id # None

\* C5: whichever delete calls fail or answer not-found, every transaction of
\* the undone run gets its delete call and the run's ledger rows and Run
\* record are deleted.
C5_UndoSurvivesDeleteFailures ==
    (mode = "undo" /\ undo_target # None) =>
        LET R == Get(undo_target).run_id
            ids == {Get(r.ynab_transaction_id) :
                       r \in {x \in pre.processed_emails :
                                 x.run_id = R /\ x.ynab_transaction_id # None}}
        IN  /\ Len(delete_calls) = Cardinality(ids)
            /\ {delete_calls[i].id : i \in 1..Len(delete_calls)} = ids
            /\ \A i \in 1..Len(delete_calls) :
                   delete_calls[i].outcome \in {"deleted", "not_found", "error"}
            /\ {r \in processed_emails : r.run_id = R} = {}
            /\ {r \in runs : r.run_id = R} = {}

\* C5 witness: a delete call failed, a later one was still made, another one
\* answered not-found or deleted, and the run's rows are gone.
C5_Witness ==
    /\ mode = "undo" /\ undo_target # None
    /\ \E i, j \in 1..Len(delete_calls) :
           /\ i < j
           /\ delete_calls[i].outcome = "error"
           /\ delete_calls[j].outcome # "error"
    /\ \E r \in pre.processed_emails : r.run_id = Get(undo_target).run_id
    /\ ~\E r \in processed_emails : r.run_id = Get(undo_target).run_id

\* C6 (as claimed): after an undo none of the emails of the undone run has a
\* ledger row, and the next run without force handles each of them from the
\* cache, without a classifier call.
C6_UndoneEmailsReuseCache ==
    /\ (mode = "undo") => \A e \in undone_emails : ~HasLedgerRow(e)
    /\ (mode = "import" /\ ~force) =>
           \A e \in undone_emails \cap ScannedIds :
               /\ e \notin found_processed
               /\ e \in HandledIds
               /\ e \notin classifier_calls

\* C6 (amended): after an undo none of the emails of the undone run has a
\* ledger row, and the next run without force handles each of them again;
\* it does so from the cache, without a classifier call, unless a cache
\* clear has removed the email's entry since it was classified.
C6_UndoneEmailsHandledAgain ==
    /\ (mode = "undo") => \A e \in undone_emails : ~HasLedgerRow(e)
    /\ (mode = "import" /\ ~force) =>
           \A e \in undone_emails \cap ScannedIds :
               /\ e \notin found_processed
               /\ (e \notin dropped_cache) =>
                      (e \in HandledIds /\ e \notin classifier_calls)

\* C6 witness: the run after an undo has ended; an email of the undone run
\* was handled again from the cache.
C6_Witness ==
    /\ ImportEnded /\ ~force
    /\ \E e \in undone_emails :
           /\ e \in HandledIds
           /\ e \notin classifier_calls
           /\ e \notin dropped_cache
           /\ stats.cached >= 1

\* C7 (as claimed): an import run that ends without a crash and without a
\* cancel has its Run record completed, with transactions_created the number
\* of transactions it created.
C7_NormalEndCompletesRun ==
    (ImportEnded /\ outcome \in {"no_transactions", "none_selected", "completed"}) =>
        \E r \in runs :
            /\ r.run_id = run_id
            /\ r.completed_at # None
            /\ r.transactions_created =
                   Cardinality({row \in ServiceRows : row.run_id = run_id})

\* C8: an email whose classification, fresh or cached, scores below the
\* threshold gets no PendingTransaction and is in no request; when the run
\* ends without a cancel its ledger row has is_receipt false and no
\* transaction id.
C8_BelowThresholdIsNonReceipt ==
    (mode = "import") =>
        \A h \in handled :
            (h[2].score < min_score) =>
                /\ h[1] \notin PendingIds(pending_transactions)
                /\ h[1] \notin SubmittedIds
                /\ (pc = "idle" /\ outcome # "cancelled") =>
                       /\ HasLedgerRow(h[1])
                       /\ LedgerRow(h[1]) =
                              [email_id |-> h[1], is_receipt |-> FALSE,
                               ynab_transaction_id |-> None, run_id |-> run_id]

\* C8 witness: a completed run that created a transaction also handled an
\* email scoring below the threshold, which carried an amount.
C8_Witness ==
    /\ ImportEnded /\ outcome = "completed"
    /\ \E row \in ServiceRows : row.run_id = run_id
    /\ \E h \in handled :
           /\ h[2].score < min_score
           /\ h[2].amount # None
           /\ HasLedgerRow(h[1])

C10_ImportIdDeterminism ==
    \A a, b \in import_id_calls :
        /\ (~a.force /\ ~b.force /\ a.email_id = b.email_id /\ a.date = b.date)
               => a.key = b.key
        /\ (a.force /\ b.force /\ a.email_id = b.email_id /\ a.date = b.date
                /\ a.amount = b.amount /\ a.clock # b.clock)
               => a.key # b.key

\* C10 witness: two unforced calls that differ in amount and clock, and two
\* forced calls that differ in the clock only.
C10_Witness ==
    /\ \E a, b \in import_id_calls :
           /\ ~a.force /\ ~b.force
           /\ a.email_id = b.email_id /\ a.date = b.date
           /\ a.amount # b.amount /\ a.clock # b.clock
    /\ \E a, b \in import_id_calls :
           /\ a.force /\ b.force
           /\ a.email_id = b.email_id /\ a.date = b.date
           /\ a.amount = b.amount /\ a.clock # b.clock

\* The key of a regular submission of a run without force: the hash is taken
\* over the email id alone.
IsUnforcedKey(email_id, import_id) ==
    import_id # None /\ Get(import_id).hash = md5_hex16(<<email_id>>)

\* C11 (as claimed): every regular submission built without force for an
\* email carries the key of every transaction an earlier run without force
\* created for that email, on whatever day it is built.
C11_SameKeyOnReplay ==
    /\ \A a, b \in ynab_transactions :
           (/\ a.email_id = b.email_id
            /\ IsUnforcedKey(a.email_id, a.import_id)
            /\ IsUnforcedKey(b.email_id, b.import_id))
               => a.import_id = b.import_id
    /\ (mode = "import" /\ ~force) =>
           \A i \in 1..Len(pending_transactions) :
               \A row \in ynab_transactions :
                   (/\ ~pending_transactions[i].is_scheduled
                    /\ row.email_id = pending_transactions[i].email_id
                    /\ IsUnforcedKey(row.email_id, row.import_id))
                       => pending_transactions[i].import_id = row.import_id

StartupFailures == {"payee_refresh_failed", "fetch_failed"}
RaisedIds == classifier_calls \ HandledIds
NonReceiptIds == {non_receipt_emails[i] : i \in 1..Len(non_receipt_emails)}

\* C12: a classifier call that raises, or a response that cannot be parsed,
\* does not end the scan: the loop reaches the end of the fetched list, every
\* other email is skipped as processed or classified and gated, the failure
\* is counted, and the run ends at the confirmation step or after the
\* submission, where every confirmed transaction was sent.
C12_ClassifierFailureDoesNotAbort ==
    (mode = "import" /\ outcome \notin StartupFailures) =>
        /\ (pc # "scan") => idx > Len(inbox)
        /\ \A e \in ScannedIds :
               \/ ~force /\ e \in found_processed
               \/ e \in RaisedIds
               \/ e \in HandledIds
        /\ (pc = "scan") =>
               \A e \in HandledIds :
                   e \in PendingIds(pending_transactions) \cup NonReceiptIds
        /\ stats.errors >= Cardinality(RaisedIds)
        /\ (pc = "idle") =>
               outcome \in {"no_transactions", "cancelled", "none_selected",
                            "completed"}
        /\ (pc = "idle" /\ outcome = "completed") =>
               PendingIds(pending_transactions) \subseteq SubmittedIds

\* C12 witness: a run has completed in which the classifier call for the
\* first email raised and the transaction of the second email was created.
C12_Witness ==
    /\ ImportEnded /\ outcome = "completed"
    /\ inbox[1].id \in RaisedIds
    /\ inbox[2].id \in HandledIds
    /\ \E row \in ServiceRows :
           row.run_id = run_id /\ row.email_id = inbox[2].id
    /\ stats.errors = 1

\* C13 (as claimed): an email whose classifier response could not be parsed
\* gets no ledger row in that run and its failure result is not kept in the
\* cache, so that the next run without force calls the classifier for it
\* again.
C13_ParseFailureLeavesUnprocessed ==
    /\ \A c \in classification_cache : c.result # FailedResult
    /\ (mode = "import") =>
           \A h \in handled :
               (h[2] = FailedResult) =>
                   ~\E r \in processed_emails :
                        r.email_id = h[1] /\ r.run_id = run_id

\* The emails of the creation requests of this run that failed.
FailedIds ==
    UNION {PendingIds(create_calls[i].items) :
              i \in {j \in 1..Len(create_calls) : ~create_calls[j].ok}}

\* What the run that fails records for the emails of a failed request: no
\* ledger row of this run, and one error for each of them.
FailedSubmissionsUnprocessed ==
    (mode = "import") =>
        /\ \A e \in FailedIds :
               ~\E r \in processed_emails : r.email_id = e /\ r.run_id = run_id
        /\ stats.errors = Cardinality(RaisedIds) + Cardinality(FailedIds)

\* The email e, scanned by this run, has a transaction built for it again,
\* which is sent when the user confirms it and the run reaches its end.
BuiltAgain(e) ==
    /\ e \in HandledIds
    /\ (pc = "scan") => e \in PendingIds(pending_transactions)
    /\ (pc = "idle" /\ outcome = "completed"
            /\ e \in PendingIds(pending_transactions)) => e \in SubmittedIds

\* C14 (as claimed): the emails of a failed scheduled creation or of a
\* rejected batch are counted as errors and get no ledger row in that run,
\* and the next run without force does not skip them and builds a
\* transaction for each of them again.
C14_FailedSubmissionsRetried ==
    /\ FailedSubmissionsUnprocessed
    /\ (mode = "import" /\ ~force) =>
           \A f \in failed_emails :
               (f[1] \in ScannedIds) =>
                   (f[1] \notin found_processed /\ BuiltAgain(f[1]))

\* C14 (amended): as above, for the emails that had no ledger row from an
\* earlier run when the submission failed, and with the transaction built
\* again from the cached classification unless a cache clear has removed it.
C14_FailedSubmissionsRetriedFromCache ==
    /\ FailedSubmissionsUnprocessed
    /\ (mode = "import" /\ ~force) =>
           \A f \in failed_emails :
               (f[1] \in ScannedIds /\ ~f[2]) =>
                   /\ f[1] \notin found_processed
                   /\ (f[1] \notin dropped_cache) =>
                          (BuiltAgain(f[1]) /\ f[1] \notin classifier_calls)

\* C14 witness: a run without force has completed after a run in which the
\* scheduled creation and the batch both failed; both emails were built
\* again from the cache and their transactions were created.
C14_Witness ==
    /\ ImportEnded /\ ~force /\ outcome = "completed"
    /\ failed_emails = {<<inbox[1].id, FALSE>>, <<inbox[2].id, FALSE>>}
    /\ classifier_calls = {}
    /\ \E row \in ynab_transactions : row.run_id = run_id
    /\ \E row \in ynab_scheduled : row.run_id = run_id
    /\ \A e \in InboxIds : HasLedgerRow(e) /\ LedgerRow(e).run_id = run_id

\* The response parses to a JSON object.
IsObjectResponse(response) ==
    response.text \in {"json", "block"} /\ response.doc.t = "object"

\* C16 (as claimed): classify_email raises for no response text; a missing,
\* null or non-numeric score gives score 0 and a missing, null or non-numeric
\* amount gives no amount.
C16_ClassifyNeverRaises ==
    \A c \in classify_calls :
        /\ ~c.outcome.raised
        /\ (IsObjectResponse(c.response)
                /\ c.response.doc.score.j \notin {"int", "numstr"})
               => c.outcome.result.score = 0
        /\ (IsObjectResponse(c.response)
                /\ c.response.doc.amount.j \notin {"int", "numstr"})
               => c.outcome.result.amount = None

\* C15: a response that is not JSON and holds no {...} block makes
\* classify_email return the score-0 result; under every threshold from 1 to
\* 10 an email with that result is below the threshold, gets no
\* PendingTransaction, is in no request, and is marked processed with
\* is_receipt false once the scan is over.
C15_UnparseableIsNonReceipt ==
    /\ \A r \in Responses :
           (r.text = "no_block") =>
               (classify_email(r) = Returned(FailedResult)
                    /\ classify_email(r).result.score = 0)
    /\ (mode = "import") =>
           \A h \in handled :
               (h[2] = FailedResult) =>
                   /\ h[2].score < min_score
                   /\ h[1] \notin PendingIds(pending_transactions)
                   /\ h[1] \notin SubmittedIds
                   /\ (pc # "scan") =>
                          /\ HasLedgerRow(h[1])
                          /\ LedgerRow(h[1]) =
                                 [email_id |-> h[1], is_receipt |-> FALSE,
                                  ynab_transaction_id |-> None,
                                  run_id |-> run_id]

\* C15 witness: under the lowest threshold a run has ended after its
\* classifier call gave the score-0 result; the email is marked a non-receipt.
C15_Witness ==
    /\ ImportEnded /\ min_score = 1
    /\ \E h \in handled :
           /\ h[2] = FailedResult
           /\ h[1] \in classifier_calls
           /\ HasLedgerRow(h[1])
           /\ ~LedgerRow(h[1]).is_receipt

\* The positions in create_calls of the batch requests.
BatchCalls == {i \in 1..Len(create_calls) : create_calls[i].op = "batch"}

RECURSIVE ItemsOfBatches(_)
\* The items of the batch requests made so far, in the order they were sent.
ItemsOfBatches(i) ==
    IF i > Len(create_calls) THEN <<>>
    ELSE (IF create_calls[i].op = "batch" THEN create_calls[i].items ELSE <<>>)
             \o ItemsOfBatches(i + 1)

\* C17: a rejected batch touches only its own members: they are counted as
\* errors and get no ledger row, the members of every batch that succeeded
\* keep their ledger rows, the batches sent are the next slices of at most
\* five of the regular transactions, and when the run completes every batch
\* has been sent and the Run record holds the number of transactions the
\* successful requests created.
C17_BatchErrorIsLocal ==
    (mode = "import") =>
        /\ \A i \in BatchCalls :
               /\ Len(create_calls[i].items) \in 1..BatchSize
               /\ \A e \in PendingIds(create_calls[i].items) :
                      IF create_calls[i].ok
                      THEN /\ HasLedgerRow(e)
                           /\ LedgerRow(e).run_id = run_id
                           /\ LedgerRow(e).is_receipt
                      ELSE ~\E r \in processed_emails :
                               r.email_id = e /\ r.run_id = run_id
        /\ stats.errors = Cardinality(RaisedIds) + Cardinality(FailedIds)
        /\ ItemsOfBatches(1) =
               SubSeq(regular_transactions, 1, Len(ItemsOfBatches(1)))
        /\ (pc = "idle" /\ outcome = "completed") =>
               /\ ItemsOfBatches(1) = regular_transactions
               /\ \E r \in runs :
                      /\ r.run_id = run_id
                      /\ r.completed_at # None
                      /\ r.transactions_created =
                             Cardinality({row \in ServiceRows : row.run_id = run_id})
                      /\ r.transactions_created =
                             stats.receipts_added + stats.scheduled_added

\* C17 witness: a run over six regular transactions has completed; its first
\* batch of five was rejected and its second batch created one transaction.
C17_Witness ==
    /\ ImportEnded /\ outcome = "completed"
    /\ Len(regular_transactions) = BatchSize + 1
    /\ Len(create_calls) = 2
    /\ ~create_calls[1].ok /\ Len(create_calls[1].items) = BatchSize
    /\ create_calls[2].ok /\ Len(create_calls[2].items) = 1
    /\ stats.errors = BatchSize
    /\ \E r \in runs : r.run_id = run_id /\ r.transactions_created = 1

\* An item of a successful batch request of this run with a key of an
\* earlier run's transaction.
IsDuplicateItem(i, k) ==
    /\ i \in BatchCalls /\ create_calls[i].ok
    /\ k \in 1..Len(create_calls[i].items)
    /\ \E row \in ynab_transactions :
           /\ row.run_id # run_id
           /\ row.import_id = create_calls[i].items[k].import_id

DuplicateItems ==
    {<<i, k>> \in (1..Len(create_calls)) \X (1..BatchSize) : IsDuplicateItem(i, k)}

\* C18: an item whose key the service already holds does not fail its
\* request; its email is marked processed as a receipt without a
\* transaction id, it is counted in duplicates and neither in errors nor in
\* the creations, and the Run record's transactions_created leaves it out.
C18_DuplicateIsNotAnError ==
    (mode = "import") =>
        /\ \A d \in DuplicateItems :
               LET e == create_calls[d[1]].items[d[2]].email_id
               IN  /\ HasLedgerRow(e)
                   /\ LedgerRow(e) =
                          [email_id |-> e, is_receipt |-> TRUE,
                           ynab_transaction_id |-> None, run_id |-> run_id]
                   /\ ~\E row \in ServiceRows :
                          row.run_id = run_id /\ row.email_id = e
        /\ stats.duplicates = Cardinality(DuplicateItems)
        /\ stats.errors = Cardinality(RaisedIds) + Cardinality(FailedIds)
        /\ stats.receipts_added =
               Cardinality({row \in ynab_transactions : row.run_id = run_id})
        /\ (pc = "idle" /\ outcome = "completed") =>
               \E r \in runs :
                   /\ r.run_id = run_id
                   /\ r.transactions_created =
                          Cardinality({row \in ServiceRows : row.run_id = run_id})

\* C18 witness: a run has completed in which one item was a duplicate of a
\* transaction of an undone run and another item was created.
C18_Witness ==
    /\ ImportEnded /\ ~force /\ outcome = "completed"
    /\ stats.duplicates = 1 /\ stats.errors = 0
    /\ Cardinality(DuplicateItems) = 1
    /\ stats.receipts_added = 1
    /\ \E r \in runs : r.run_id = run_id /\ r.transactions_created = 1
    /\ \E r \in processed_emails :
           r.run_id = run_id /\ r.is_receipt /\ r.ynab_transaction_id = None

Locked == {p \in Procs : proc[p].pc = "locked"}

\* At most one process is inside the section the lock protects, and a body
\* is running only while some process holds the lock.
LockMutualExclusion ==
    /\ Cardinality(Locked) <= 1
    /\ \A p \in Procs : (proc[p].pc = "locked") <=> (lock = Some(p))
    /\ (pc # "idle") => lock # None

\* C19 (as claimed): at most one process is inside the section the lock
\* protects, and a process that found the lock held has left at once (it is
\* not waiting for the lock) without having changed the store.
C19_LockExcludesAndRejectsCleanly ==
    /\ LockMutualExclusion
    /\ \A p \in Procs :
           (proc[p].exit = "already_running") =>
               (proc[p].pc = "off" /\ ~proc[p].wrote)

\* C20 (as claimed): every step that changes the local store (the ledger,
\* the cache, the run records) is a step of the body of the process that
\* holds the lock.
C20_StoreMutatedOnlyUnderLock ==
    [][(storeVars' # storeVars) =>
           (lock # None /\ lock' = lock /\ proc' = proc
                /\ proc[Get(lock)].pc = "locked")]_vars

\* The lock is held only by a process that is inside the with block.
LockHeldByRunningProcess ==
    (lock # None) => (Locked = {Get(lock)})

\* Every process that has acquired the lock leaves the with block.
LockHolderLeaves ==
    \A p \in Procs : (proc[p].pc = "locked") ~> (proc[p].pc = "off")

\* C21 (as claimed): every invocation that acquires the lock eventually
\* terminates and has released the lock, whatever path it takes, given only
\* that its network calls return; the lock is then free for a later
\* invocation.
C21_LockAlwaysReleased ==
    []LockHeldByRunningProcess /\ LockHolderLeaves

\* C21 (amended): the same, for invocations whose selection prompt, if it is
\* shown, is answered by the user: while the prompt waits the lock stays
\* held.
C21_LockReleasedOncePromptAnswered ==
    /\ []LockHeldByRunningProcess
    /\ ([]<>~PromptOpen) => LockHolderLeaves

\* An import whose payee refresh or email fetch failed has left the with
\* block and the lock is free.
C21_Witness ==
    /\ lock = None
    /\ outcome \in StartupFailures
    /\ \E p \in Procs : proc[p].exit = "done"

\* The ways an invocation ends on its configuration.
ConfigExits == {"missing_config", "accounts_exit", "no_accounts"}

\* C22 (as claimed): an import invocation that ended on an invalid
\* configuration has not taken the lock, has written nothing to the store,
\* and has ended with a non-zero exit status.
C22_InvalidConfigIsFatalBeforeSideEffects ==
    \A p \in Procs :
        (proc[p].exit \in ConfigExits) =>
            /\ lock # Some(p)
            /\ ~proc[p].wrote
            /\ proc[p].status # Some(0)

\* The positions of the default accounts in an account list.
DefaultIndexes(account_list) ==
    {k \in 1..Len(account_list) : account_list[k].default}

\* The account the claim names for a suggested account name: the one of that
\* very name, else the default one.
ExpectedAccount(account_name) ==
    IF \E k \in 1..Len(accounts) : Some(accounts[k].name) = account_name
    THEN accounts[CHOOSE k \in 1..Len(accounts) : Some(accounts[k].name) = account_name]
    ELSE accounts[CHOOSE k \in DefaultIndexes(accounts) : TRUE]

\* C23: while the body of an import runs, the account list has exactly one
\* default account, and every transaction built was routed to the account
\* whose name equals the classifier's account_name, else to that default.
C23_RoutingIsExactOrDefault ==
    (pc # "idle") =>
        /\ Cardinality(DefaultIndexes(accounts)) = 1
        /\ \A i \in 1..Len(pending_transactions) : \A h \in handled :
               (h[1] = pending_transactions[i].email_id) =>
                   /\ pending_transactions[i].account_id =
                          ExpectedAccount(h[2].account_name).ynab_id
                   /\ \E k \in 1..Len(accounts) :
                          accounts[k].ynab_id = pending_transactions[i].account_id

\* A transaction was routed by name to an account that is not the default.
C23_Witness ==
    /\ pc = "submit"
    /\ ~accounts[1].default
    /\ \E i \in 1..Len(pending_transactions) : \E h \in handled :
           /\ h[1] = pending_transactions[i].email_id
           /\ h[2].account_name = Some(accounts[1].name)
           /\ pending_transactions[i].account_id = accounts[1].ynab_id

\* The raw merchant name, or the literal "Unknown" without one.
MerchantOrUnknown(result) ==
    IF TruthyStr(result.merchant) THEN Get(result.merchant) ELSE "Unknown"

\* C24 (as claimed): a built transaction carries the classifier's
\* matched_payee only when that is one of the known payee names; a
\* matched_payee that is not a known payee gives way to the raw merchant name,
\* and "Unknown" is used when there is neither.
C24_PayeeNeverFabricated ==
    \A i \in 1..Len(pending_transactions) : \A h \in handled :
        (h[1] = pending_transactions[i].email_id) =>
            LET result == h[2]
                payee_name == pending_transactions[i].payee_name
            IN  /\ (result.matched_payee # None
                        /\ payee_name = Get(result.matched_payee)) =>
                       (payee_name \in PayeeNames)
                /\ (result.matched_payee # None
                        /\ Get(result.matched_payee) \notin PayeeNames) =>
                       (payee_name = MerchantOrUnknown(result))
                /\ (result.matched_payee = None) =>
                       (payee_name = MerchantOrUnknown(result))

\* The day of a call's candidate date, when the candidate is a well-formed
\* date inside [today - 5 * 365 days, today + 90 days].
CandidateAccepted(c) ==
    /\ c.date_str # None
    /\ Get(c.date_str).ok
    /\ c.today - FiveYearsDays <= Get(c.date_str).day
    /\ Get(c.date_str).day <= c.today + NinetyDays

\* The fallback timestamp is well-formed and its date is inside
\* [today - 5 * 365 days, today].
FallbackAccepted(c) ==
    /\ c.email_received_at.ok
    /\ c.today - FiveYearsDays <= c.email_received_at.day
    /\ c.email_received_at.day <= c.today

\* C25: validate returns the candidate, with is_future telling whether it is
\* after today, when the candidate is well-formed and inside
\* [today - 5 years, today + 90 days] (five years being 5 * 365 days); else
\* the date of the fallback timestamp, never as future, when that is inside
\* [today - 5 years, today]; else the unrecoverable result.  is_future is
\* never true for a fallback date or a date not after today.
C25_ValidateWindows ==
    \A c \in validate_calls :
        /\ CandidateAccepted(c) =>
               c.result = <<c.date_str, Get(c.date_str).day > c.today>>
        /\ (~CandidateAccepted(c) /\ FallbackAccepted(c)) =>
               c.result = <<Some(DateStr(c.email_received_at.day)), FALSE>>
        /\ (~CandidateAccepted(c) /\ ~FallbackAccepted(c)) =>
               c.result = <<None, FALSE>>
        /\ c.result[2] =>
               /\ c.result[1] = c.date_str
               /\ Get(c.result[1]).day > c.today

\* On one day, the candidate today + 90 days came back as a future date and
\* the candidate today + 91 days gave way to the fallback date.
C25_Witness ==
    \E c, d \in validate_calls :
        /\ c.today = d.today
        /\ c.date_str = Some(DateStr(c.today + NinetyDays))
        /\ c.result = <<c.date_str, TRUE>>
        /\ d.date_str = Some(DateStr(d.today + NinetyDays + 1))
        /\ d.result = <<Some(d.email_received_at), FALSE>>

\* The email of the inbox with the given id.
EmailOf(email_id) == inbox[CHOOSE k \in 1..Len(inbox) : inbox[k].id = email_id]

\* C26: during a run, a transaction that was built is scheduled exactly when
\* the validated date of its classification is after today and the
\* date_confidence is "certain"; a transaction that is not scheduled has a
\* date not after today, and a scheduled one a date after today and at most
\* today + 90 days.
C26_ScheduledIffFutureAndCertain ==
    (pc # "idle") =>
        \A i \in 1..Len(pending_transactions) : \A h \in handled :
            (h[1] = pending_transactions[i].email_id) =>
                LET t == pending_transactions[i]
                    v == validate_transaction_date(h[2].date,
                                                   EmailOf(t.email_id).received_at,
                                                   today)
                IN  /\ t.is_scheduled <=>
                           (v[2] /\ h[2].date_confidence = Some("certain"))
                    /\ ~t.is_scheduled => (t.date.ok /\ t.date.day <= today)
                    /\ t.is_scheduled =>
                           /\ t.date.ok
                           /\ today < t.date.day
                           /\ t.date.day <= today + NinetyDays

\* A run has built a transaction whose future date, not being certain, was
\* replaced by today.
C26_Witness ==
    /\ pc # "idle"
    /\ \E i \in 1..Len(pending_transactions) : \E h \in handled :
           /\ h[1] = pending_transactions[i].email_id
           /\ ~pending_transactions[i].is_scheduled
           /\ h[2].date # None
           /\ Get(h[2].date).day > today
           /\ pending_transactions[i].date = DateStr(today)

\* C27: a transaction that was built has no import_id exactly when it is
\* scheduled; a request to the scheduled-transaction endpoint carries one
\* scheduled transaction, and a batch carries only transactions that are not
\* scheduled, each with an import_id.
C27_KeyNullIffScheduled ==
    /\ \A i \in 1..Len(pending_transactions) :
           (pending_transactions[i].import_id = None) <=>
               pending_transactions[i].is_scheduled
    /\ \A c \in 1..Len(create_calls) :
           LET call == create_calls[c]
           IN  /\ (call.op = "scheduled") =>
                      /\ Len(call.items) = 1
                      /\ call.items[1].is_scheduled
                      /\ call.items[1].import_id = None
               /\ (call.op = "batch") =>
                      \A k \in 1..Len(call.items) :
                          /\ ~call.items[k].is_scheduled
                          /\ call.items[k].import_id # None

\* One run has sent a scheduled transaction on its own and a batch with a
\* regular transaction.
C27_Witness ==
    \E c, d \in 1..Len(create_calls) :
        /\ create_calls[c].op = "scheduled"
        /\ create_calls[d].op = "batch"
        /\ Len(create_calls[d].items) >= 1

\* ceil(n / 5): the least number of groups of at most five that hold n items.
CeilDiv(n, d) == CHOOSE k \in 0..n : d * k >= n /\ (k = 0 \/ d * (k - 1) < n)

\* C28: the batch requests of a run carry between one and five transactions
\* each, the regular transactions they carry are the confirmed ones in their
\* order with none sent twice, whether or not a request failed, and a run
\* that has completed has made exactly ceil(n / 5) batch requests for its n
\* confirmed regular transactions, carrying each of them once.
C28_BatchesPartitionRegulars ==
    (mode = "import") =>
        LET sent == ItemsOfBatches(1)
            n == Len(regular_transactions)
        IN  /\ \A i \in BatchCalls : Len(create_calls[i].items) \in 1..BatchSize
            /\ Cardinality(PendingIds(sent)) = Len(sent)
            /\ Len(sent) <= n
            /\ \A k \in 1..Len(sent) : sent[k] = regular_transactions[k]
            /\ Cardinality(BatchCalls) <= CeilDiv(n, BatchSize)
            /\ (pc = "idle" /\ outcome = "completed") =>
                   /\ Cardinality(BatchCalls) = CeilDiv(n, BatchSize)
                   /\ Len(sent) = n

\* A run over six confirmed regular transactions has completed with two batch
\* requests, both rejected and neither sent again.
C28_Witness ==
    /\ ImportEnded /\ outcome = "completed"
    /\ Len(regular_transactions) = BatchSize + 1
    /\ Cardinality(BatchCalls) = 2
    /\ \A i \in BatchCalls : ~create_calls[i].ok

\* The "Done! ..." line with the counts has been printed: it is the last
\* statement of the body, reached only through "Complete the run".
SummaryPrinted == outcome = "completed"

\* C29 (as claimed): an import that got past its start-up (payee refresh and
\* email fetch) and has ended, on whichever path, has printed the final
\* summary.
C29_SummaryAlwaysEmitted ==
    (ImportEnded /\ outcome \notin StartupFailures) => SummaryPrinted


----------------------------------------------------------------------------
(* The classification cache across runs *)

\* The inbox of the cache specification: an email for which the classifier
\* answers a merchant that is a string, or one that is a JSON array.
CacheInbox == << Email("k1", DateStr(Day0 - 1)) >>

\* Import runs with and without --force and --clear-cache, and undos.
NextCache ==
    \/ \E is_force \in BOOLEAN, clear_cache \in BOOLEAN :
          StartImport(is_force, clear_cache, DefaultMinScore, "ok")
    \/ ScanEmail
    \/ \E selected_ids \in SUBSET PendingIds(pending_transactions) :
          Review(FALSE, selected_ids)
    \/ Review(TRUE, {})
    \/ \E ok \in BOOLEAN : CreateBatch(ok)
    \/ CompleteRun
    \/ \E errs \in SUBSET {r.id : r \in ynab_transactions \cup ynab_scheduled} :
          UndoLastRun(errs)

SpecCache == InitWith(CacheInbox) /\ [][NextCache]_vars

\* C30: without a cache clear, once a classifier call for an email id has
\* returned a result in an earlier run, the classifier is not invoked for the
\* id again, and every later handling of the email uses that result.
C30_CachePersistsUntilCleared ==
    \A cr \in classifier_returned :
        (mode = "import" /\ cr[2] < run_id) =>
            /\ cr[1] \notin classifier_calls
            /\ \A h \in handled : h[1] = cr[1] => h[2] = cr[3]


----------------------------------------------------------------------------
(* Deselected candidates *)

\* The ledger row mark_processed writes for a candidate the user unchecked.
DeselectedRow(email_id, rid) ==
    [email_id |-> email_id, is_receipt |-> TRUE, ynab_transaction_id |-> None,
     run_id |-> rid]

\* In the run of the deselection: the candidate is in no request to the
\* budgeting service and its email has a ledger row with a null transaction
\* id and the run's id.
DeselectedInThisRun ==
    \A d \in deselected :
        (mode = "import" /\ d.run_id = run_id) =>
            /\ d.email_id \notin SubmittedIds
            /\ DeselectedRow(d.email_id, run_id) \in processed_emails

\* C31 (as claimed): a candidate the user deselects is not submitted, its
\* email is marked processed with a null transaction id in that run, and no
\* later run without force offers it again.
C31_DeselectedNeverOfferedAgain ==
    /\ DeselectedInThisRun
    /\ \A d \in deselected :
           (mode = "import" /\ ~force /\ d.run_id < run_id) =>
               d.email_id \notin PendingIds(pending_transactions)

\* C31 (amended): the same, for later runs without force as long as no undo
\* has deleted the email's ledger row.
C31_DeselectedNotOfferedUntilUndone ==
    /\ DeselectedInThisRun
    /\ \A d \in deselected :
           (mode = "import" /\ ~force /\ d.run_id < run_id /\ ~d.undone) =>
               d.email_id \notin PendingIds(pending_transactions)

\* C31 witness: a later run without force has scanned the whole inbox and
\* skipped an email deselected in an earlier run, which had submitted another
\* candidate; no undo has touched the email's row.
C31_Witness ==
    /\ mode = "import" /\ ~force
    /\ idx > Len(inbox)
    /\ \E d \in deselected :
           /\ d.run_id < run_id /\ ~d.undone
           /\ d.email_id \in found_processed
           /\ \E row \in ServiceRows : row.run_id = d.run_id


----------------------------------------------------------------------------
(* Amounts *)

\* The rows the budgeting service created in this run for a transaction.
RowsOf(txn) ==
    {row \in ynab_transactions :
        row.email_id = txn.email_id /\ row.run_id = run_id}

\* The transactions of the creation requests of this run.
SubmittedTransactions ==
    UNION {{create_calls[i].items[k] : k \in 1..Len(create_calls[i].items)} :
              i \in 1..Len(create_calls)}

\* C32: every PendingTransaction has a strictly positive amount, and the
\* amount the service receives is the amount in milliunits, positive exactly
\* when is_inflow is true and negative exactly when it is false, whatever
\* amount the classifier extracted (zero and negative amounts included).
C32_AmountPositiveAndSignEncodesDirection ==
    (mode = "import") =>
        /\ \A i \in 1..Len(pending_transactions) :
               pending_transactions[i].amount > 0
        /\ \A txn \in SubmittedTransactions :
               /\ txn.amount > 0
               /\ \A row \in RowsOf(txn) :
                      /\ (row.amount > 0) <=> txn.is_inflow
                      /\ (row.amount < 0) <=> ~txn.is_inflow
                      /\ row.amount \in {txn.amount * 10, 0 - txn.amount * 10}


----------------------------------------------------------------------------
(* Undo and the budgeting service *)

\* The rows of the budgeting service that are live: regular transactions not
\* deleted, and scheduled transactions (which nothing deletes).
LiveRows == {row \in ynab_transactions : ~row.deleted} \cup ynab_scheduled

NoDeleteError ==
    \A i \in 1..Len(delete_calls) : delete_calls[i].outcome # "error"

\* C33: after an undo of a completed run in which no delete call was answered
\* with an error, no transaction the run created, regular or scheduled, is
\* live at the budgeting service, and a delete call was answered not-found
\* only for an id that is not live there.
C33_UndoLeavesNothingLive ==
    (mode = "undo" /\ undo_target # None /\ NoDeleteError) =>
        /\ ~\E row \in LiveRows : row.run_id = Get(undo_target).run_id
        /\ \A i \in 1..Len(delete_calls) :
               (delete_calls[i].outcome = "not_found") =>
                   ~\E row \in LiveRows : row.id = delete_calls[i].id


\* The run ids of the completed runs that no undo has removed.
CompletedRuns == {r.run_id : r \in {x \in runs : x.completed_at # None}}

\* C34: every transaction a completed run that has not been undone created at
\* the budgeting service is referenced by a ledger row with the transaction's
\* id and that run's id.
C34_CreatedTransactionsStayReferenced ==
    \A row \in ServiceRows :
        (row.run_id \in CompletedRuns) =>
            \E r \in processed_emails :
                /\ r.ynab_transaction_id = Some(row.id)
                /\ r.run_id = row.run_id


----------------------------------------------------------------------------
(* The answers of the budgeting service to a batch *)

\* The inbox of the response specification: two emails with the fixed
\* receipt of the batching specification.
ResponseInbox ==
    << Email("b1", DateStr(Day0 - 1)), Email("b2", DateStr(Day0 - 1)) >>

Replies == {"ok", "short", "error", "lost"}

NextResponse ==
    \/ \E is_force \in BOOLEAN :
          StartImport(is_force, FALSE, DefaultMinScore, "ok")
    \/ ScanEmail
    \/ \E selected_ids \in SUBSET PendingIds(pending_transactions) :
          Review(FALSE, selected_ids)
    \/ \E reply \in Replies : CreateBatchWith(reply)
    \/ CompleteRun
    \/ \E errs \in SUBSET {r.id : r \in ynab_transactions} : UndoLastRun(errs)

SpecResponse == InitWith(ResponseInbox) /\ [][NextResponse]_vars


\* Every delete call of an undo of run R is for a transaction R created.
UndoCallsAreOwn ==
    (mode = "undo" /\ undo_target # None) =>
        \A i \in 1..Len(delete_calls) :
            \E row \in ServiceRows :
                /\ row.id = delete_calls[i].id
                /\ row.run_id = Get(undo_target).run_id

\* An undo leaves the transactions of every run other than its target as
\* they are at the service.
UndoKeepsOtherRuns ==
    (mode' = "undo" /\ invocations' # invocations) =>
        \A row \in ynab_transactions :
            (undo_target' = None \/ row.run_id # Get(undo_target').run_id) =>
                row \in ynab_transactions'

\* C35: undo of run R makes delete calls only for transactions R created; a
\* transaction of an earlier run that R met as a duplicate, and a transaction
\* of any other run, is not deleted by undoing R.
C35_UndoDeletesOnlyItsOwn == []UndoCallsAreOwn /\ [][UndoKeepsOtherRuns]_vars

\* C35 witness: an undo of run R has made a delete call; R had marked an
\* email as a duplicate, and that email's transaction, created by an earlier
\* run, is still live at the service.
C35_Witness ==
    /\ mode = "undo" /\ undo_target # None
    /\ delete_calls # <<>>
    /\ \E r \in pre.processed_emails :
           /\ r.run_id = Get(undo_target).run_id
           /\ r.is_receipt /\ r.ynab_transaction_id = None
           /\ \E row \in LiveRows :
                  /\ row.email_id = r.email_id
                  /\ row.run_id < r.run_id


----------------------------------------------------------------------------
(* Runs without --force, and undos whose delete calls are all answered *)

NextNoForce ==
    \/ \E clear_cache \in BOOLEAN, startup \in Startups :
          StartImport(FALSE, clear_cache, DefaultMinScore, startup)
    \/ ScanEmail
    \/ \E selected_ids \in SUBSET PendingIds(pending_transactions) :
          Review(FALSE, selected_ids)
    \/ Review(TRUE, {})
    \/ \E ok \in BOOLEAN : CreateScheduled(ok)
    \/ \E ok \in BOOLEAN : CreateBatch(ok)
    \/ CompleteRun
    \/ UndoLastRun({})
    \/ AdvanceDay

SpecNoForce == Init /\ [][NextNoForce]_vars

\* C36: with runs without force, and undos in which no delete call is
\* answered with an error, the budgeting service never holds two live
\* transactions, regular or scheduled, that come from the same email.
C36_OneLiveTransactionPerEmail ==
    \A r1, r2 \in LiveRows : (r1.email_id = r2.email_id) => (r1 = r2)


\* C37: when a run completes, the Run record's transactions_created is the
\* number of ledger rows with the run's id and a non-null transaction id,
\* whatever number of created ids the budgeting service lists in its answers.
C37_CreatedCountMatchesLedger ==
    (ImportEnded /\ outcome = "completed") =>
        \E r \in runs :
            /\ r.run_id = run_id
            /\ r.transactions_created =
                   Cardinality({l \in processed_emails :
                                   l.run_id = run_id
                                   /\ l.ynab_transaction_id # None})


\* C38: the payee cache is refreshed before the Run record is created: an
\* invocation whose payee refresh fails leaves no Run record of its own and
\* the runs table as it found it.
C38_NoRunRecordBeforeRefresh ==
    (mode = "import" /\ outcome = "payee_refresh_failed") =>
        /\ ~\E r \in runs : r.run_id = run_id
        /\ runs = pre.runs

====
